---------------------------- MODULE Spec2Model ----------------------------
(***************************************************************************)
(* A model of the MCP base64 server: the base64 codec                      *)
(* (services/base64_service.py), the protocol dispatcher                   *)
(* (services/mcp_protocol_handler.py), the transport base class            *)
(* (transports/transport_interface.py), the stream transport               *)
(* (transports/stdio_transport.py) and the network transport               *)
(* (transports/http_transport.py).                                         *)
(*                                                                         *)
(* Text is a sequence of Unicode code points, a byte string a sequence of  *)
(* 0..255, and a base64 string a sequence of characters coded as:          *)
(*   0..63  the alphabet A-Z a-z 0-9 + /  (the character's sextet value)   *)
(*   64     '='                                                            *)
(*   65     '\n'                                                           *)
(*   66     ' '                                                            *)
(*   67     a character outside the alphabet, such as '!'                  *)
(***************************************************************************)
EXTENDS Integers, Sequences, FiniteSets, TLC

\* ------------------------------------------------------------------ bounds

\* Longest text handed to the codec, in code points.
MaxTextLen == 3

\* Longest arbitrary base64 string handed to the decoder, in characters.
MaxB64Len == 4

\* Lines the stream transport reads in one run.
MaxLines == 2

\* Calls of StdioTransport.start() that start a worker in one run.
MaxStarts == 2

\* Clients of the network transport, each posting one HTTP request.
MaxClients == 2

\* Requests one dispatcher handles one after another.
MaxSession == 3

\* Length of the strings handed to the two base64 validators.
MaxValidateLen == 5

\* The threads that share the performance monitor.
MaxThreads == 2

\* The record_request calls made in all.
MaxRecords == 3

\* ------------------------------------------------------- program constants

\* Base64Service.MAX_TEXT_LENGTH: 1024 * 1024.
MAX_TEXT_LENGTH == 1048576

PARSE_ERROR == -32700
INVALID_REQUEST == -32600
METHOD_NOT_FOUND == -32601
INVALID_PARAMS == -32602
INTERNAL_ERROR == -32603
INVALID_BASE64 == -1001
ENCODING_ERROR == -1002
DECODING_ERROR == -1003
TOOL_NOT_FOUND == -1004

\* class MCPErrorCodes: the codes of the taxonomy.
MCPErrorCodes ==
    {PARSE_ERROR, INVALID_REQUEST, METHOD_NOT_FOUND, INVALID_PARAMS, INTERNAL_ERROR,
     INVALID_BASE64, ENCODING_ERROR, DECODING_ERROR, TOOL_NOT_FOUND}

\* --------------------------------------------------------------- the codec

PadChar == 64
NewlineChar == 65
SpaceChar == 66
BadChar == 67

\* One code point of each UTF-8 length: 'A', e-acute, a CJK ideograph, an emoji.
CodePoints == {65, 233, 20320, 127757}

RECURSIVE SeqsUpTo(_, _)
SeqsUpTo(S, n) ==
    IF n = 0 THEN {<<>>}
    ELSE LET shorter == SeqsUpTo(S, n - 1)
         IN  shorter \cup {Append(s, x) : s \in {t \in shorter : Len(t) = n - 1}, x \in S}

Texts == SeqsUpTo(CodePoints, MaxTextLen)

\* str.encode('utf-8') of one code point; <<>> stands for UnicodeEncodeError
\* (a lone surrogate).
Utf8OfCodePoint(cp) ==
    IF cp < 128 THEN <<cp>>
    ELSE IF cp < 2048 THEN <<192 + (cp \div 64), 128 + (cp % 64)>>
    ELSE IF cp >= 55296 /\ cp <= 57343 THEN <<>>
    ELSE IF cp < 65536
         THEN <<224 + (cp \div 4096), 128 + ((cp \div 64) % 64), 128 + (cp % 64)>>
    ELSE <<240 + (cp \div 262144), 128 + ((cp \div 4096) % 64),
           128 + ((cp \div 64) % 64), 128 + (cp % 64)>>

RECURSIVE Utf8Encode(_)
Utf8Encode(text) ==
    IF text = <<>> THEN <<>>
    ELSE Utf8OfCodePoint(Head(text)) \o Utf8Encode(Tail(text))

Utf8Encodable(text) == \A i \in 1..Len(text) : Utf8OfCodePoint(text[i]) # <<>>

\* base64.b64encode: three bytes to four sextets, '=' padding on the last group.
RECURSIVE B64EncodeBytes(_)
B64EncodeBytes(bytes) ==
    IF Len(bytes) = 0 THEN <<>>
    ELSE IF Len(bytes) = 1
         THEN <<bytes[1] \div 4, (bytes[1] % 4) * 16, PadChar, PadChar>>
    ELSE IF Len(bytes) = 2
         THEN <<bytes[1] \div 4, (bytes[1] % 4) * 16 + (bytes[2] \div 16),
                (bytes[2] % 16) * 4, PadChar>>
    ELSE <<bytes[1] \div 4, (bytes[1] % 4) * 16 + (bytes[2] \div 16),
           (bytes[2] % 16) * 4 + (bytes[3] \div 64), bytes[3] % 64>>
         \o B64EncodeBytes(SubSeq(bytes, 4, Len(bytes)))

\* Base64Service.is_valid_text: [ok, msg].
is_valid_text(text) ==
    IF Len(text) = 0 THEN [ok |-> TRUE, msg |-> ""]
    ELSE IF Len(text) > MAX_TEXT_LENGTH THEN [ok |-> FALSE, msg |-> "Text too long"]
    ELSE IF ~Utf8Encodable(text) THEN [ok |-> FALSE, msg |-> "Invalid UTF-8 text"]
    ELSE [ok |-> TRUE, msg |-> ""]

\* Base64Service.encode: [ok, val, msg]; ok = FALSE stands for the ValueError.
EncodeChecked(text, valid) ==
    IF ~valid.ok
    THEN [ok |-> FALSE, val |-> <<>>, msg |-> "Invalid text input: " \o valid.msg]
    ELSE [ok |-> TRUE, val |-> B64EncodeBytes(Utf8Encode(text)), msg |-> ""]

encode(text) == EncodeChecked(text, is_valid_text(text))

\* The pattern BASE64_PATTERN, ^[A-Za-z0-9+/]*={0,2}$, without the end anchor's
\* tolerance of a final newline.
PatternCore(s) ==
    \E p \in 0..2 :
        /\ p <= Len(s)
        /\ \A i \in 1..Len(s) :
              IF i <= Len(s) - p THEN s[i] \in 0..63 ELSE s[i] = PadChar

\* BASE64_PATTERN.match(s): Python's $ also matches just before a final newline.
BASE64_PATTERN_match(s) ==
    \/ PatternCore(s)
    \/ /\ Len(s) > 0
       /\ s[Len(s)] = NewlineChar
       /\ PatternCore(SubSeq(s, 1, Len(s) - 1))

\* str.count('=').
CountPad(s) == Cardinality({i \in 1..Len(s) : s[i] = PadChar})

\* s.endswith('=' * n).
EndsWithPads(s, n) ==
    /\ n <= Len(s)
    /\ \A i \in (Len(s) - n + 1)..Len(s) : s[i] = PadChar

\* binascii.a2b_base64, the decoder behind base64.b64decode: the scan from
\* character i on with the decoder's registers; [ok, val], ok = FALSE standing
\* for binascii.Error.
RECURSIVE A2bScan(_, _, _, _, _, _, _, _)
A2bScan(s, strict, i, quad, pads, padStarted, left, out) ==
    IF i > Len(s)
    THEN IF quad # 0 THEN [ok |-> FALSE, val |-> <<>>] ELSE [ok |-> TRUE, val |-> out]
    ELSE IF s[i] = PadChar
    THEN IF quad >= 2 /\ quad + pads + 1 >= 4
         THEN IF strict /\ i + 1 <= Len(s)
              THEN [ok |-> FALSE, val |-> <<>>]
              ELSE [ok |-> TRUE, val |-> out]
         ELSE A2bScan(s, strict, i + 1, quad, IF quad >= 2 THEN pads + 1 ELSE pads,
                      TRUE, left, out)
    ELSE IF s[i] \notin 0..63
    THEN IF strict THEN [ok |-> FALSE, val |-> <<>>]
         ELSE A2bScan(s, strict, i + 1, quad, pads, padStarted, left, out)
    ELSE IF strict /\ padStarted THEN [ok |-> FALSE, val |-> <<>>]
    ELSE IF quad = 0 THEN A2bScan(s, strict, i + 1, 1, 0, padStarted, s[i], out)
    ELSE IF quad = 1
         THEN A2bScan(s, strict, i + 1, 2, 0, padStarted, s[i] % 16,
                      Append(out, left * 4 + (s[i] \div 16)))
    ELSE IF quad = 2
         THEN A2bScan(s, strict, i + 1, 3, 0, padStarted, s[i] % 4,
                      Append(out, left * 16 + (s[i] \div 4)))
    ELSE A2bScan(s, strict, i + 1, 0, 0, padStarted, 0, Append(out, left * 64 + s[i]))

\* base64.b64decode(s, validate=strict).
b64decode(s, strict) ==
    IF strict /\ Len(s) > 0 /\ s[1] = PadChar
    THEN [ok |-> FALSE, val |-> <<>>]
    ELSE A2bScan(s, strict, 1, 0, 0, FALSE, 0, <<>>)

IsCont(b) == b >= 128 /\ b <= 191

\* bytes.decode('utf-8'): [ok, val], ok = FALSE standing for UnicodeDecodeError.
RECURSIVE Utf8Scan(_, _, _)
Utf8Scan(b, i, out) ==
    LET n == Len(b)
        bad == [ok |-> FALSE, val |-> <<>>]
    IN  IF i > n THEN [ok |-> TRUE, val |-> out]
        ELSE IF b[i] < 128 THEN Utf8Scan(b, i + 1, Append(out, b[i]))
        ELSE IF b[i] >= 194 /\ b[i] <= 223
        THEN IF i + 1 <= n /\ IsCont(b[i + 1])
             THEN Utf8Scan(b, i + 2, Append(out, (b[i] - 192) * 64 + (b[i + 1] - 128)))
             ELSE bad
        ELSE IF b[i] >= 224 /\ b[i] <= 239
        THEN IF /\ i + 2 <= n
                /\ IsCont(b[i + 1])
                /\ IsCont(b[i + 2])
                /\ (b[i] = 224 => b[i + 1] >= 160)
                /\ (b[i] = 237 => b[i + 1] <= 159)
             THEN Utf8Scan(b, i + 3,
                           Append(out, (b[i] - 224) * 4096 + (b[i + 1] - 128) * 64
                                       + (b[i + 2] - 128)))
             ELSE bad
        ELSE IF b[i] >= 240 /\ b[i] <= 244
        THEN IF /\ i + 3 <= n
                /\ IsCont(b[i + 1])
                /\ IsCont(b[i + 2])
                /\ IsCont(b[i + 3])
                /\ (b[i] = 240 => b[i + 1] >= 144)
                /\ (b[i] = 244 => b[i + 1] <= 143)
             THEN Utf8Scan(b, i + 4,
                           Append(out, (b[i] - 240) * 262144 + (b[i + 1] - 128) * 4096
                                       + (b[i + 2] - 128) * 64 + (b[i + 3] - 128)))
             ELSE bad
        ELSE bad

Utf8Decode(b) == Utf8Scan(b, 1, <<>>)

\* Base64Service.validate_base64: [ok, msg]; padding_count is
\* base64_string.count('=').
ValidateCounted(s, padding_count) ==
    IF Len(s) = 0 THEN [ok |-> FALSE, msg |-> "Base64 string cannot be empty"]
    ELSE IF Len(s) % 4 # 0
         THEN [ok |-> FALSE, msg |-> "Base64 string length must be multiple of 4"]
    ELSE IF ~BASE64_PATTERN_match(s)
         THEN [ok |-> FALSE, msg |-> "Base64 string contains invalid characters"]
    ELSE IF padding_count > 2
         THEN [ok |-> FALSE, msg |-> "Base64 string has too many padding characters"]
    ELSE IF padding_count > 0 /\ ~EndsWithPads(s, padding_count)
         THEN [ok |-> FALSE, msg |-> "Padding characters must be at the end"]
    ELSE IF /\ padding_count > 0
            /\ \E i \in 1..(Len(s) - padding_count) : s[i] = PadChar
         THEN [ok |-> FALSE, msg |-> "Padding characters can only appear at the end"]
    ELSE IF ~b64decode(s, TRUE).ok
         THEN [ok |-> FALSE, msg |-> "Base64 string format is invalid"]
    ELSE [ok |-> TRUE, msg |-> ""]

validate_base64(s) == ValidateCounted(s, CountPad(s))

\* The text of decoded bytes (lines 157-165 of Base64Service.decode).
DecodeText(text) ==
    IF ~text.ok
    THEN [ok |-> FALSE, val |-> <<>>,
          msg |-> "Text decoding failed: Invalid UTF-8 sequence"]
    ELSE [ok |-> TRUE, val |-> text.val, msg |-> ""]

\* The bytes of a validated string (lines 153-161 of Base64Service.decode).
DecodeBytes(raw) ==
    IF ~raw.ok
    THEN [ok |-> FALSE, val |-> <<>>,
          msg |-> "Base64 decoding failed: Invalid base64 format"]
    ELSE DecodeText(Utf8Decode(raw.val))

\* A decode that skips validate_base64 and hands every string to b64decode.
DecodeChecked_Unvalidated(s, valid) ==
    DecodeBytes(b64decode(s, FALSE))

\* Base64Service.decode once validate_base64 has returned (lines 150-165).
DecodeChecked(s, valid) ==
    IF ~valid.ok
    THEN [ok |-> FALSE, val |-> <<>>, msg |-> "Invalid base64 input: " \o valid.msg]
    ELSE DecodeBytes(b64decode(s, FALSE))

\* Base64Service.decode: [ok, val, msg]; ok = FALSE stands for the ValueError.
decode(s) == DecodeChecked(s, validate_base64(s))

\* ------------------------------------------------------------ JSON values

\* A JSON value of an envelope member: its type and, for a string or a number,
\* its text. "absent" marks a member the object does not have.
JNull == [type |-> "null", val |-> ""]
JAbsent == [type |-> "absent", val |-> ""]
JStr(s) == [type |-> "str", val |-> s]
JInt(s) == [type |-> "int", val |-> s]
JList == [type |-> "list", val |-> "[1]"]

\* Python's truth value of a JSON value.
Truthy(j) ==
    /\ j.type \notin {"null", "absent"}
    /\ ~(j.type = "str" /\ j.val = "")
    /\ ~(j.type = "int" /\ j.val = "0")
    /\ ~(j.type = "list" /\ j.val = "[]")

\* The value of a tool argument: a string carries its characters.
TAbsent == [type |-> "absent", val |-> <<>>]
TInt == [type |-> "int", val |-> <<>>]
TStr(t) == [type |-> "str", val |-> t]

\* The "arguments" member of tools/call params, and params itself.
ArgsAbsent == [type |-> "absent", text |-> TAbsent, base64_string |-> TAbsent]
ArgsOf(type) == [type |-> type, text |-> TAbsent, base64_string |-> TAbsent]
ArgsObj(text, b64) == [type |-> "obj", text |-> text, base64_string |-> b64]
ParamsOf(type) == [type |-> type, name |-> JAbsent, arguments |-> ArgsAbsent]
ParamsObj(name, arguments) == [type |-> "obj", name |-> name, arguments |-> arguments]

\* models/mcp_models.py, MCPRequest.
MCPRequest(jsonrpc, id, method, params) ==
    [jsonrpc |-> jsonrpc, id |-> id, method |-> method, params |-> params]

\* models/mcp_models.py, MCPError; NoError is error = None. The message is the
\* code's format string and arg the value interpolated into it.
MCPError(code, message, arg, dataKey, dataVal) ==
    [none |-> FALSE, code |-> code, message |-> message, arg |-> arg,
     dataKey |-> dataKey, dataVal |-> dataVal]
NoError ==
    [none |-> TRUE, code |-> 0, message |-> "", arg |-> "", dataKey |-> "",
     dataVal |-> ""]

\* A result mapping; NoResultValue is result = None.
NoResultValue ==
    [none |-> TRUE, kind |-> "", tools |-> <<>>, content |-> <<>>, isError |-> FALSE]
ResultOf(kind, toolNames, content) ==
    [none |-> FALSE, kind |-> kind, tools |-> toolNames, content |-> content,
     isError |-> FALSE]

\* models/mcp_models.py, MCPResponse: the defaults are id = None, result = None,
\* error = None.
MCPResponse(id, result, error) ==
    [jsonrpc |-> "2.0", id |-> id, result |-> result, error |-> error]

\* A to_json that writes "result" whether or not error is set.
to_json_ResultAlways(response) ==
    [members |-> {"jsonrpc", "id", "result"}
                 \cup (IF ~response.error.none THEN {"error"} ELSE {}),
     id |-> response.id,
     result |-> response.result,
     error |-> response.error]

\* MCPResponse.to_json: the members of the serialised object and their values.
to_json(response) ==
    [members |-> {"jsonrpc", "id"}
                 \cup (IF ~response.error.none THEN {"error"} ELSE {"result"}),
     id |-> response.id,
     result |-> IF response.error.none THEN response.result ELSE NoResultValue,
     error |-> response.error]

\* ------------------------------------------------------- the error handler

ErrorHandler_create_parse_error(details) ==
    MCPError(PARSE_ERROR, "Parse error", "", "details", details)
ErrorHandler_create_invalid_request_error(details) ==
    MCPError(INVALID_REQUEST, "Invalid Request", "", "details", details)
ErrorHandler_create_invalid_params_error(details) ==
    MCPError(INVALID_PARAMS, "Invalid params", "", "details", details)
ErrorHandler_create_internal_error(details) ==
    MCPError(INTERNAL_ERROR, "Internal error", "", "details", details)

\* The exception classes the classifier tells apart, and one it does not.
ExcKinds ==
    {"ValueError", "KeyError", "NotImplementedError", "TypeError", "AttributeError",
     "RuntimeError"}

\* ErrorHandler.handle_exception(exception, context); exc is the exception's
\* class and excMsg its str().
ErrorHandler_handle_exception(exc, excMsg, context) ==
    LET error_message == IF context # "" THEN context \o ": " \o excMsg ELSE excMsg
    IN  IF exc = "ValueError"
        THEN ErrorHandler_create_invalid_params_error(error_message)
        ELSE IF exc = "KeyError"
        THEN ErrorHandler_create_invalid_request_error(error_message)
        ELSE IF exc = "NotImplementedError"
        THEN ErrorHandler_create_internal_error("Feature not implemented: "
                                                \o error_message)
        ELSE IF exc = "TypeError"
        THEN ErrorHandler_create_invalid_params_error("Type error: " \o error_message)
        ELSE IF exc = "AttributeError"
        THEN ErrorHandler_create_internal_error("Attribute error: " \o error_message)
        ELSE ErrorHandler_create_internal_error(error_message)

\* ErrorHandler.create_invalid_base64_error.
ErrorHandler_create_invalid_base64_error(details) ==
    MCPError(INVALID_BASE64, "Invalid base64 string", "", "details", details)

\* str.strip() leaves nothing: every character is whitespace.
IsBlank(s) == \A i \in 1..Len(s) : s[i] \in {NewlineChar, SpaceChar}

\* s.replace('\n', '').replace('\r', '').replace(' ', '').
WithoutWhitespace(s) == SelectSeq(s, LAMBDA ch : ch \notin {NewlineChar, SpaceChar})

\* ErrorHandler.validate_base64_format on a string: the MCPError, or NoError
\* for None. Its pattern is the one of BASE64_PATTERN.
ErrorHandler_validate_base64_format(s) ==
    IF IsBlank(s)
    THEN ErrorHandler_create_invalid_base64_error("Base64 string cannot be empty")
    ELSE IF ~BASE64_PATTERN_match(WithoutWhitespace(s))
    THEN ErrorHandler_create_invalid_base64_error(
             "Base64 string contains invalid characters")
    ELSE IF Len(WithoutWhitespace(s)) % 4 # 0
    THEN ErrorHandler_create_invalid_base64_error(
             "Base64 string length must be a multiple of 4")
    ELSE NoError

\* ------------------------------------------------------------ the dispatcher

\* MCPProtocolHandler._register_tools: the registry, in registration order.
RegisteredTools == <<"base64_encode", "base64_decode">>

\* A lookup that finds every name.
InRegistry_Any(registry, name) ==
    TRUE

\* `tool_name in self.tools` of _handle_call_tool.
InRegistry(registry, name) ==
    name.type = "str" /\ \E i \in 1..Len(registry) : registry[i] = name.val

\* The collaborators of one call: whether the logger, the metrics recorder and
\* the codec fail with an unexpected exception.
ReliableEnv == [logFails |-> FALSE, metricFails |-> FALSE, codecFails |-> FALSE]

\* What a call returned or raised: kind is "return" or "raise".
Returned(response, codecCalls) ==
    [kind |-> "return", exc |-> "", excMsg |-> "", resp |-> response,
     codecCalls |-> codecCalls]
Raised(exc, excMsg, codecCalls) ==
    [kind |-> "raise", exc |-> exc, excMsg |-> excMsg,
     resp |-> MCPResponse(JNull, NoResultValue, NoError), codecCalls |-> codecCalls]

\* MCPProtocolHandler._validate_request.
validate_request(request) ==
    IF request.jsonrpc # JStr("2.0") THEN FALSE
    ELSE IF ~Truthy(request.method) \/ request.method.type # "str" THEN FALSE
    ELSE IF request.params.type # "null" /\ request.params.type # "obj" THEN FALSE
    ELSE TRUE

\* What a tool makes of the codec's return: the ToolResult, or the codec's
\* ValueError raised again.
CodecOutcome(coded) ==
    IF ~coded.ok THEN Raised("ValueError", coded.msg, 1)
    ELSE Returned(MCPResponse(JNull, ResultOf("call", <<>>, coded.val), NoError), 1)

\* MCPProtocolHandler._execute_base64_encode.
execute_base64_encode(arguments, env) ==
    IF arguments.type = "null"
    THEN Raised("TypeError", "argument of type 'NoneType' is not iterable", 0)
    ELSE IF arguments.type = "list" \/ arguments.text.type = "absent"
    THEN Raised("ValueError", "Missing required parameter: text", 0)
    ELSE IF arguments.text.type # "str"
    THEN Raised("ValueError", "Parameter 'text' must be a string", 0)
    ELSE IF env.codecFails
    THEN Raised("ValueError", "Encoding failed: unexpected", 1)
    ELSE CodecOutcome(encode(arguments.text.val))

\* MCPProtocolHandler._execute_base64_decode.
execute_base64_decode(arguments, env) ==
    IF arguments.type = "null"
    THEN Raised("TypeError", "argument of type 'NoneType' is not iterable", 0)
    ELSE IF arguments.type = "list" \/ arguments.base64_string.type = "absent"
    THEN Raised("ValueError", "Missing required parameter: base64_string", 0)
    ELSE IF arguments.base64_string.type # "str"
    THEN Raised("ValueError", "Parameter 'base64_string' must be a string", 0)
    ELSE IF env.codecFails
    THEN Raised("ValueError", "Decoding failed: unexpected", 1)
    ELSE CodecOutcome(decode(arguments.base64_string.val))

\* MCPProtocolHandler._call_tool.
call_tool(tool_name, arguments, env) ==
    IF tool_name = "base64_encode" THEN execute_base64_encode(arguments, env)
    ELSE IF tool_name = "base64_decode" THEN execute_base64_decode(arguments, env)
    ELSE Raised("ValueError", "Unknown tool", 0)

\* The try statement of _handle_call_tool (lines 272-299), `called` being what
\* _call_tool returned or raised.
CallToolResponse(request, called) ==
    IF called.kind = "return"
    THEN Returned(MCPResponse(request.id, called.resp.result, NoError), called.codecCalls)
    ELSE IF called.exc = "ValueError"
    THEN Returned(MCPResponse(request.id, NoResultValue,
                              MCPError(INVALID_PARAMS, called.excMsg, "", "", "")),
                  called.codecCalls)
    ELSE Returned(MCPResponse(request.id, NoResultValue,
                              ErrorHandler_handle_exception(called.exc, called.excMsg, "")),
                  called.codecCalls)

\* request.params.get("arguments", {}).
ArgumentsOf(params) ==
    IF params.arguments.type = "absent" THEN ArgsOf("obj") ELSE params.arguments

\* MCPProtocolHandler._handle_call_tool.
handle_call_tool(request, registry, env) ==
    IF request.params.type = "null"
    THEN Raised("TypeError", "argument of type 'NoneType' is not iterable", 0)
    ELSE IF request.params.name.type = "absent"
    THEN Returned(MCPResponse(request.id, NoResultValue,
                              MCPError(INVALID_PARAMS, "Missing required parameter: name",
                                       "", "", "")),
                  0)
    ELSE IF request.params.name.type = "list"
    THEN Raised("TypeError", "unhashable type: 'list'", 0)
    ELSE IF ~InRegistry(registry, request.params.name)
    THEN Returned(MCPResponse(request.id, NoResultValue,
                              MCPError(TOOL_NOT_FOUND, "Tool '{tool_name}' not found",
                                       request.params.name.val, "", "")),
                  0)
    ELSE CallToolResponse(request,
                          call_tool(request.params.name.val, ArgumentsOf(request.params),
                                    env))

\* MCPProtocolHandler._handle_list_tools.
handle_list_tools(request, registry) ==
    Returned(MCPResponse(request.id, ResultOf("tools", registry, <<>>), NoError), 0)

\* MCPProtocolHandler._handle_initialize.
handle_initialize(request) ==
    Returned(MCPResponse(request.id, ResultOf("initialize", <<>>, <<>>), NoError), 0)

\* A ping handler that answers with no result at all, serialised as
\* "result": null.
handle_ping_NoResult(request) ==
    Returned(MCPResponse(request.id, NoResultValue, NoError), 0)

\* MCPProtocolHandler._handle_ping: the result is the empty mapping.
handle_ping(request) ==
    Returned(MCPResponse(request.id, ResultOf("empty", <<>>, <<>>), NoError), 0)

\* The method handler handle_request routes a valid envelope to.
RouteOf(request) ==
    IF request.method.val \in {"tools/list", "tools/call", "initialize", "ping"}
    THEN request.method.val
    ELSE "none"

\* The method routing of handle_request (lines 116-133).
route_request(request, registry, env) ==
    IF request.method.val = "tools/list" THEN handle_list_tools(request, registry)
    ELSE IF request.method.val = "tools/call" THEN handle_call_tool(request, registry, env)
    ELSE IF request.method.val = "initialize" THEN handle_initialize(request)
    ELSE IF request.method.val = "ping" THEN handle_ping(request)
    ELSE Returned(MCPResponse(request.id, NoResultValue,
                              MCPError(METHOD_NOT_FOUND, "Method '{method}' not found",
                                       request.method.val, "", "")),
                  0)

\* An invalid-request response built with the default id, None.
InvalidRequestResponse_DefaultId(request) ==
    MCPResponse(JNull, NoResultValue,
                MCPError(INVALID_REQUEST, "Invalid request format", "", "", ""))

\* The response to an envelope that fails validation (lines 108-114).
InvalidRequestResponse(request) ==
    MCPResponse(request.id, NoResultValue,
                MCPError(INVALID_REQUEST, "Invalid request format", "", "", ""))

\* What handle_request did: kind "return" with the response, or "raise"; the
\* method handler it routed to ("none" when it routed to none); the request log
\* entries written, the metric events recorded and the codec calls made.
Outcome(kind, exc, response, routed, logs, metrics, codecCalls) ==
    [kind |-> kind, exc |-> exc, resp |-> response, routed |-> routed, logs |-> logs,
     metrics |-> metrics, codecCalls |-> codecCalls]

\* The except clause of handle_request (lines 166-182), entered with exception exc
\* after `logs` request log entries.
HandleRequestExcept(request, env, exc, excMsg, routed, logs, metrics, codecCalls) ==
    IF env.logFails
    THEN Outcome("raise", "Exception", MCPResponse(JNull, NoResultValue, NoError), routed,
                 logs, metrics, codecCalls)
    ELSE Outcome("return", "",
                 MCPResponse(request.id, NoResultValue,
                             ErrorHandler_handle_exception(exc, excMsg, "")),
                 routed, logs + 1, metrics, codecCalls)

\* handle_request after the method handler returned or raised (lines 135-164
\* and the except clause).
HandleRouted(request, env, route, routed) ==
    IF routed.kind = "raise"
    THEN HandleRequestExcept(request, env, routed.exc, routed.excMsg, route, 0, 0,
                             routed.codecCalls)
    ELSE IF env.logFails
    THEN HandleRequestExcept(request, env, "Exception", "log failure", route, 0, 0,
                             routed.codecCalls)
    ELSE IF env.metricFails
    THEN HandleRequestExcept(request, env, "Exception", "metric failure", route, 1, 0,
                             routed.codecCalls)
    ELSE Outcome("return", "", routed.resp, route, 1, 1, routed.codecCalls)

\* MCPProtocolHandler.handle_request.
handle_request(request, registry, env) ==
    IF ~validate_request(request)
    THEN IF env.logFails
         THEN HandleRequestExcept(request, env, "Exception", "log failure", "none", 0, 0, 0)
         ELSE Outcome("return", "", InvalidRequestResponse(request), "none", 1, 0, 0)
    ELSE HandleRouted(request, env, RouteOf(request), route_request(request, registry, env))

\* -------------------------------------------------------- the transport base

\* A transport base that lets the handler's exception reach the caller, whose
\* except clause answers with no id.
TransportResponse_Unguarded(handler, exc, request, outcome) ==
    IF handler = "none"
    THEN MCPResponse(request.id, NoResultValue,
                     ErrorHandler_create_internal_error("No request handler registered"))
    ELSE IF handler = "raising"
    THEN MCPResponse(JNull, NoResultValue,
                     ErrorHandler_handle_exception(exc, "handler error",
                                                   "Input processing error"))
    ELSE outcome.resp

\* A transport base that calls the handler without testing that one is
\* registered: calling None raises TypeError inside the try statement.
TransportResponse_NoHandlerCheck(handler, exc, request, outcome) ==
    IF handler = "none"
    THEN MCPResponse(request.id, NoResultValue,
                     ErrorHandler_handle_exception("TypeError", "handler error",
                                                   "Request handling failed"))
    ELSE IF handler = "raising"
    THEN MCPResponse(request.id, NoResultValue,
                     ErrorHandler_handle_exception(exc, "handler error",
                                                   "Request handling failed"))
    ELSE IF outcome.kind = "raise"
    THEN MCPResponse(request.id, NoResultValue,
                     ErrorHandler_handle_exception(outcome.exc, "handler error",
                                                   "Request handling failed"))
    ELSE outcome.resp

\* Transport._handle_request(request) once the handler's outcome is known.
\* handler is "none" for no handler registered, "dispatcher" for
\* MCPProtocolHandler.handle_request and "raising" for a handler that raises an
\* exception of class exc.
TransportResponse(handler, exc, request, outcome) ==
    IF handler = "none"
    THEN MCPResponse(request.id, NoResultValue,
                     ErrorHandler_create_internal_error("No request handler registered"))
    ELSE IF handler = "raising"
    THEN MCPResponse(request.id, NoResultValue,
                     ErrorHandler_handle_exception(exc, "handler error",
                                                   "Request handling failed"))
    ELSE IF outcome.kind = "raise"
    THEN MCPResponse(request.id, NoResultValue,
                     ErrorHandler_handle_exception(outcome.exc, "handler error",
                                                   "Request handling failed"))
    ELSE outcome.resp

\* ------------------------------------------------------- the inputs drawn

\* Characters of the base64 strings handed to the decoder: 'Q', 'g', '=', a
\* newline and a character outside the alphabet.
B64Chars == {16, 32, PadChar, NewlineChar, BadChar}

B64Strings ==
    SeqsUpTo(B64Chars, MaxB64Len) \cup {encode(t).val : t \in Texts}

JsonrpcVals == {JStr("2.0"), JStr("1.0"), JInt("2"), JNull}
IdVals == {JNull, JStr("req-1"), JInt("7")}
MethodVals ==
    {JStr("initialize"), JStr("tools/list"), JStr("tools/call"), JStr("ping"),
     JStr("unknown/method"), JStr(""), JInt("5"), JNull}
NameVals ==
    {JStr("base64_encode"), JStr("base64_decode"), JStr("no_such_tool"), JInt("5"),
     JList}

ArgVals ==
    {ArgsAbsent, ArgsOf("null"), ArgsOf("list"), ArgsOf("obj"),
     ArgsObj(TInt, TAbsent), ArgsObj(TAbsent, TInt)}
    \cup {ArgsObj(TStr(t), TAbsent) : t \in Texts}
    \cup {ArgsObj(TAbsent, TStr(b)) : b \in B64Strings}

\* params of the envelopes that vary the envelope itself.
EnvelopeParams ==
    {ParamsOf("obj"), ParamsOf("null"), ParamsOf("list"), ParamsOf("str"),
     ParamsObj(JStr("base64_encode"), ArgsObj(TStr(<<65>>), TAbsent)),
     ParamsObj(JStr("no_such_tool"), ArgsAbsent)}

EnvelopeRequests ==
    {MCPRequest(j, i, m, p) :
        j \in JsonrpcVals, i \in IdVals, m \in MethodVals, p \in EnvelopeParams}

CallRequests ==
    {MCPRequest(JStr("2.0"), i, JStr("tools/call"), ParamsObj(n, a)) :
        i \in IdVals, n \in NameVals, a \in ArgVals}

Requests == EnvelopeRequests \cup CallRequests

\* MCPRequest.from_json on a JSON object, and the same construction in do_POST:
\* a member the object lacks takes its default.
from_json(obj) ==
    MCPRequest(IF obj.jsonrpc.type = "absent" THEN JStr("2.0") ELSE obj.jsonrpc,
               IF obj.id.type = "absent" THEN JNull ELSE obj.id,
               IF obj.method.type = "absent" THEN JStr("") ELSE obj.method,
               IF obj.params.type = "absent" THEN ParamsOf("obj") ELSE obj.params)

\* A line of the input stream, after line.strip(): blank, text that is not JSON,
\* JSON that is not an object, or a JSON object.
Line(kind, obj) == [kind |-> kind, obj |-> obj]
NoObject == MCPRequest(JAbsent, JAbsent, JAbsent, ParamsOf("absent"))
BlankLine == Line("blank", NoObject)
BadJsonLine == Line("badjson", NoObject)
NonObjectLine == Line("nonobject", NoObject)

\* The body of an HTTP request whose bytes are not UTF-8.
BadUtf8Body == Line("badutf8", NoObject)

EncodeParams(text) == ParamsObj(JStr("base64_encode"), ArgsObj(TStr(text), TAbsent))

\* The JSON objects the transports are sent: a ping, a tools/call, a ping with
\* no id, a ping whose id is null and a ping with no jsonrpc member.
WireObjects ==
    {MCPRequest(JStr("2.0"), JStr("req-1"), JStr("ping"), ParamsOf("absent")),
     MCPRequest(JStr("2.0"), JInt("7"), JStr("tools/call"), EncodeParams(<<65>>)),
     MCPRequest(JStr("2.0"), JAbsent, JStr("ping"), ParamsOf("obj")),
     MCPRequest(JStr("2.0"), JNull, JStr("ping"), ParamsOf("obj")),
     MCPRequest(JAbsent, JStr("req-1"), JStr("ping"), ParamsOf("obj"))}

StreamLines ==
    {BlankLine, BadJsonLine, NonObjectLine} \cup {Line("object", o) : o \in WireObjects}

\* The texts the network clients ask to encode.
HttpTexts == {<<65>>, <<233>>}

\* The id client c gives its request.
ClientId(c) == JInt(ToString(c))

\* An HTTP request: its verb, its path and its body.
HttpMessage(verb, path, body) == [verb |-> verb, path |-> path, body |-> body]

\* What client c may send: a base64_encode call under its own id, a body that is
\* not JSON, a body that is not an object, a body that is not UTF-8 (its
\* decode('utf-8') raises UnicodeDecodeError, a ValueError that is no
\* JSONDecodeError), a POST to another path, an OPTIONS
\* request and a GET request.
HttpMessages(c) ==
    {HttpMessage("POST", "/mcp",
                 Line("object", MCPRequest(JStr("2.0"), ClientId(c), JStr("tools/call"),
                                           EncodeParams(t)))) : t \in HttpTexts}
    \cup {HttpMessage("POST", "/mcp", BadJsonLine),
          HttpMessage("POST", "/mcp", NonObjectLine),
          HttpMessage("POST", "/mcp", BadUtf8Body),
          HttpMessage("POST", "/other", BadJsonLine),
          HttpMessage("OPTIONS", "/mcp", BlankLine),
          HttpMessage("GET", "/mcp", BlankLine)}

\* ---------------------------------------------------------------- the state

VARIABLES
    vString,    \* the validators: the string handed to both
    vStage,     \* "idle", "start" or "validated"
    vService,   \* what Base64Service.validate_base64 returned for it
    vFormat,    \* what ErrorHandler.validate_base64_format returned for it
    cText,      \* the codec round trip: the text handed to encode
    cStage,     \* "start", "encoded" or "decoded"
    cEnc,       \* the response to the base64_encode call on the text
    cDec,       \* the response to the base64_decode call on that response's content
    tools,      \* MCPProtocolHandler.tools, the registry, in registration order
    dKind,      \* "none"; "pending" while dReq awaits its handling; then what
                \* produced the message: "request", "no_handler", "raising_handler",
                \* "parse_error" or "exception"
    dReq,       \* the request handled
    dOut,       \* what handle_request did for it
    dResp,      \* the response the transport base returned or the transport built
    dWire,      \* that response serialised by to_json
    dLog,       \* the requests one dispatcher handled one after another, each with
                \* the response it returned
    sRunning,   \* StdioTransport._running
    sStopEvent, \* StdioTransport._stop_event is set
    sHandlerSet, \* a request handler is registered on the stream transport
    sStarted,   \* the input threads started so far
    sWorker,    \* each input thread: its place in _input_loop, the line it holds
                \* (an index of sLines, 0 for none) and the response it is to send
    sLines,     \* the lines read from stdin, in the order they were read
    sEof,       \* stdin has reached end-of-stream
    sHandled,   \* the lines handed to the request handler
    sRaised,    \* the lines for which the request handler raised
    sOut,       \* the lines written to stdout: the line answered, the serialised
                \* response, and whether the except clause wrote it
    sHeldAtStop, \* the lines an input thread held, read and not yet answered, when
                \* stop() cleared the running flag
    sLateRead,  \* the lines readline returned while the stop event was set
    hRunning,   \* HTTPTransport._running
    hServer,    \* the HTTPServer: "none", "serving", "stopping" once shutdown() is
                \* requested, "stopped" once serve_forever has returned, "closed"
    hHandlerSet, \* a request handler is registered on the network transport
    hClient,    \* each client: its state, the request it sent, whether another
                \* request was in flight when it sent it, the handler behaviour
                \* its request met and the HTTP response it received
    hCur,       \* the client whose connection the server thread is handling, 0
                \* for none
    hPc,        \* the server thread's place in do_POST
    hReq,       \* the MCPRequest do_POST built
    hResp,      \* the HTTP response do_POST is about to send
    mMetrics,   \* PerformanceMonitor._request_metrics: for each operation its
                \* total_requests, successful_requests and failed_requests
    mThread,    \* each thread calling record_request: its place in
                \* RequestMetrics.add_request, the operation and outcome it
                \* records and the counter value it has loaded
    mCalls,     \* the record_request calls made so far for each operation
    rConfig,    \* MCPBase64Server.config: the transport type and whether the
                \* HTTP API server is enabled
    rPc,        \* the main thread's place in MCPBase64Server.run, "none"
                \* while run() has not been called
    rRunning,   \* MCPBase64Server._running
    rShutdown,  \* MCPBase64Server._shutdown_event is set
    rApi,       \* the HTTP API server: "none", "created", "running" or
                \* "stopped"
    rMonitoring, \* system monitoring is running
    rRaise      \* run() is leaving with an exception

codecVars == <<vString, vStage, vService, vFormat, cText, cStage, cEnc, cDec>>
dispatchVars == <<tools, dKind, dReq, dOut, dResp, dWire, dLog>>
stdioVars ==
    <<sRunning, sStopEvent, sHandlerSet, sStarted, sWorker, sLines, sEof, sHandled,
      sRaised, sOut, sHeldAtStop, sLateRead>>
httpVars == <<hRunning, hServer, hHandlerSet, hClient, hCur, hPc, hReq, hResp>>
monitorVars == <<mMetrics, mThread, mCalls>>
serverVars == <<rConfig, rPc, rRunning, rShutdown, rApi, rMonitoring, rRaise>>
vars ==
    <<vString, vStage, vService, vFormat, cText, cStage, cEnc, cDec, tools, dKind, dReq,
      dOut, dResp, dWire, dLog, sRunning,
      sStopEvent, sHandlerSet, sStarted, sWorker, sLines, sEof, sHandled, sRaised, sOut,
      sHeldAtStop, sLateRead, hRunning, hServer, hHandlerSet, hClient, hCur, hPc, hReq, hResp,
      mMetrics, mThread, mCalls, rConfig, rPc, rRunning, rShutdown, rApi, rMonitoring,
      rRaise>>

NoRequest == MCPRequest(JAbsent, JAbsent, JAbsent, ParamsOf("absent"))
NoOutcome ==
    Outcome("none", "", MCPResponse(JNull, NoResultValue, NoError), "none", 0, 0, 0)
NoResponse == MCPResponse(JAbsent, NoResultValue, NoError)
NoWire == [members |-> {}, id |-> JAbsent, result |-> NoResultValue, error |-> NoError]

\* validate_base64 has returned nothing yet.
NoVerdict == [ok |-> FALSE, msg |-> ""]

ValidatorsIdle ==
    /\ vString = <<>>
    /\ vStage = "idle"
    /\ vService = NoVerdict
    /\ vFormat = NoError

CodecIdle ==
    /\ ValidatorsIdle
    /\ cText = <<>>
    /\ cStage = "idle"
    /\ cEnc = NoResponse
    /\ cDec = NoResponse

DispatchInit ==
    /\ tools = RegisteredTools
    /\ dKind = "none"
    /\ dReq = NoRequest
    /\ dOut = NoOutcome
    /\ dResp = NoResponse
    /\ dWire = NoWire
    /\ dLog = <<>>

Workers == 1..MaxStarts

\* A thread that has not been created.
NoWorker == [pc |-> "none", line |-> 0, resp |-> NoResponse]

\* StdioTransport.__init__ and Transport.__init__.
StdioInit ==
    /\ sRunning = FALSE
    /\ sStopEvent = FALSE
    /\ sHandlerSet = FALSE
    /\ sStarted = 0
    /\ sWorker = [w \in Workers |-> NoWorker]
    /\ sLines = <<>>
    /\ sEof = FALSE
    /\ sHandled = {}
    /\ sRaised = {}
    /\ sOut = <<>>
    /\ sHeldAtStop = {}
    /\ sLateRead = {}

Clients == 1..MaxClients

\* An HTTP response: the status, whether the CORS headers were sent, the body.
HttpResponse(status, cors, wire) == [status |-> status, cors |-> cors, wire |-> wire]
NoHttpResponse == HttpResponse(0, FALSE, NoWire)

\* A client that has not sent its request.
IdleClient ==
    [st |-> "idle", msg |-> HttpMessage("", "", BlankLine), overlap |-> FALSE,
     handler |-> "", resp |-> NoHttpResponse]

\* HTTPTransport.__init__ and Transport.__init__.
HttpInit ==
    /\ hRunning = FALSE
    /\ hServer = "none"
    /\ hHandlerSet = FALSE
    /\ hClient = [c \in Clients |-> IdleClient]
    /\ hCur = 0
    /\ hPc = "idle"
    /\ hReq = NoRequest
    /\ hResp = NoHttpResponse

\* The threads that call record_request on the one global monitor.
MonitorThreads == 1..MaxThreads

\* The operations recorded: the dispatcher records "mcp_" + method.
Operations == {"mcp_ping", "mcp_tools/call"}

\* A thread outside record_request.
IdleThread == [pc |-> "idle", operation |-> "", success |-> FALSE, loaded |-> 0]

\* RequestMetrics(): the counters of an operation nothing was recorded for.
RequestMetrics ==
    [total_requests |-> 0, successful_requests |-> 0, failed_requests |-> 0]

\* PerformanceMonitor.__init__.
MonitorInit ==
    /\ mMetrics = [o \in Operations |-> RequestMetrics]
    /\ mThread = [t \in MonitorThreads |-> IdleThread]
    /\ mCalls = [o \in Operations |-> 0]

\* A configuration: the transport type and whether the HTTP API server is
\* enabled.
Config(transport, api) == [transport |-> transport, api |-> api]

\* MCPBase64Server.__init__, with run() not called.
ServerIdle ==
    /\ rConfig = Config("stdio", FALSE)
    /\ rPc = "none"
    /\ rRunning = FALSE
    /\ rShutdown = FALSE
    /\ rApi = "none"
    /\ rMonitoring = FALSE
    /\ rRaise = FALSE

\* ------------------------------------------------------- the validators

\* The strings handed to the validators: 'Q', '=', a newline, a space and a
\* character outside the alphabet.
ValidatorStrings ==
    SeqsUpTo({16, PadChar, NewlineChar, SpaceChar, BadChar}, MaxValidateLen)

ValidateInit ==
    /\ vString \in ValidatorStrings
    /\ vStage = "start"
    /\ vService = NoVerdict
    /\ vFormat = NoError
    /\ cText = <<>>
    /\ cStage = "idle"
    /\ cEnc = NoResponse
    /\ cDec = NoResponse
    /\ DispatchInit
    /\ StdioInit
    /\ HttpInit
    /\ MonitorInit
    /\ ServerIdle

\* Both validators are called on the string.
Validate ==
    /\ vStage = "start"
    /\ vStage' = "validated"
    /\ vService' = validate_base64(vString)
    /\ vFormat' = ErrorHandler_validate_base64_format(vString)
    /\ UNCHANGED <<vString, cText, cStage, cEnc, cDec>>
    /\ UNCHANGED dispatchVars
    /\ UNCHANGED serverVars
    /\ UNCHANGED monitorVars
    /\ UNCHANGED stdioVars
    /\ UNCHANGED httpVars

SpecValidate == ValidateInit /\ [][Validate]_vars

\* ------------------------------------------------- the codec's round trip

CodecInit ==
    /\ ValidatorsIdle
    /\ cText \in Texts
    /\ cStage = "start"
    /\ cEnc = NoResponse
    /\ cDec = NoResponse
    /\ DispatchInit
    /\ StdioInit
    /\ HttpInit
    /\ MonitorInit
    /\ ServerIdle

\* A tools/call request for the tool `name` with `arguments`.
ToolCall(name, arguments) ==
    MCPRequest(JStr("2.0"), JInt("7"), JStr("tools/call"), ParamsObj(JStr(name), arguments))

\* A client calls base64_encode on the text.
CallEncode ==
    /\ cStage = "start"
    /\ cEnc' = handle_request(ToolCall("base64_encode", ArgsObj(TStr(cText), TAbsent)),
                              tools, ReliableEnv).resp
    /\ cStage' = "encoded"
    /\ UNCHANGED <<cText, cDec>>
    /\ UNCHANGED <<vString, vStage, vService, vFormat>>
    /\ UNCHANGED dispatchVars
    /\ UNCHANGED serverVars
    /\ UNCHANGED monitorVars
    /\ UNCHANGED stdioVars
    /\ UNCHANGED httpVars

\* The client calls base64_decode on the content base64_encode returned.
CallDecode ==
    /\ cStage = "encoded"
    /\ cEnc.error.none
    /\ cDec' = handle_request(ToolCall("base64_decode",
                                       ArgsObj(TAbsent, TStr(cEnc.result.content))),
                              tools, ReliableEnv).resp
    /\ cStage' = "decoded"
    /\ UNCHANGED <<cText, cEnc>>
    /\ UNCHANGED <<vString, vStage, vService, vFormat>>
    /\ UNCHANGED dispatchVars
    /\ UNCHANGED serverVars
    /\ UNCHANGED monitorVars
    /\ UNCHANGED stdioVars
    /\ UNCHANGED httpVars

NextCodec == CallEncode \/ CallDecode

SpecCodec == CodecInit /\ [][NextCodec]_vars

\* ------------------------------------- messages: dispatcher and transport base

\* A request has arrived; the registry is as _register_tools left it.
MessagesInit ==
    /\ CodecIdle
    /\ tools = RegisteredTools
    /\ dKind = "pending"
    /\ dReq \in Requests
    /\ dOut = NoOutcome
    /\ dResp = NoResponse
    /\ dWire = NoWire
    /\ dLog = <<>>
    /\ StdioInit
    /\ HttpInit
    /\ MonitorInit
    /\ ServerIdle

\* A transport hands a request to its registered handler, the dispatcher.
DispatchRequest ==
    \E request \in {dReq} :
        /\ dKind = "pending"
        /\ dKind' = "request"
        /\ dReq' = request
        /\ dOut' = handle_request(request, tools, ReliableEnv)
        /\ dResp' = TransportResponse("dispatcher", "", request, dOut')
        /\ dWire' = to_json(dResp')
        /\ UNCHANGED <<tools, dLog>>
        /\ UNCHANGED codecVars
        /\ UNCHANGED serverVars
        /\ UNCHANGED monitorVars
        /\ UNCHANGED stdioVars
        /\ UNCHANGED httpVars

\* A request arrives at a transport that has no handler registered.
DispatchNoHandler ==
    \E request \in {dReq} \cap EnvelopeRequests :
        /\ dKind = "pending"
        /\ dKind' = "no_handler"
        /\ dReq' = request
        /\ dOut' = NoOutcome
        /\ dResp' = TransportResponse("none", "", request, dOut')
        /\ dWire' = to_json(dResp')
        /\ UNCHANGED <<tools, dLog>>
        /\ UNCHANGED codecVars
        /\ UNCHANGED serverVars
        /\ UNCHANGED monitorVars
        /\ UNCHANGED stdioVars
        /\ UNCHANGED httpVars

\* A request arrives at a transport whose registered handler raises.
DispatchRaisingHandler ==
    \E request \in {dReq} \cap EnvelopeRequests, exc \in ExcKinds :
        /\ dKind = "pending"
        /\ dKind' = "raising_handler"
        /\ dReq' = request
        /\ dOut' = Outcome("raise", exc, MCPResponse(JNull, NoResultValue, NoError),
                           "none", 0, 0, 0)
        /\ dResp' = TransportResponse("raising", exc, request, dOut')
        /\ dWire' = to_json(dResp')
        /\ UNCHANGED <<tools, dLog>>
        /\ UNCHANGED codecVars
        /\ UNCHANGED serverVars
        /\ UNCHANGED monitorVars
        /\ UNCHANGED stdioVars
        /\ UNCHANGED httpVars

\* MCPResponse(error=create_parse_error(...)): what both transports answer to
\* input that is not JSON.
ParseErrorResponse ==
    MCPResponse(JNull, NoResultValue, ErrorHandler_create_parse_error("Invalid JSON"))

\* MCPResponse(error=handle_exception(e, context)): what both transports answer
\* when their own processing raises.
ExceptionResponse(exc, context) ==
    MCPResponse(JNull, NoResultValue,
                ErrorHandler_handle_exception(exc, "processing error", context))

\* A transport answers input that is not JSON.
EmitParseError ==
    /\ dKind = "pending"
    /\ dKind' = "parse_error"
    /\ dReq' = NoRequest
    /\ dOut' = NoOutcome
    /\ dResp' = ParseErrorResponse
    /\ dWire' = to_json(dResp')
    /\ UNCHANGED <<tools, dLog>>
    /\ UNCHANGED codecVars
    /\ UNCHANGED serverVars
    /\ UNCHANGED monitorVars
    /\ UNCHANGED stdioVars
    /\ UNCHANGED httpVars

\* A transport answers an exception of its own processing.
EmitException ==
    \E exc \in ExcKinds,
       context \in {"Input processing error", "HTTP request processing error"} :
        /\ dKind = "pending"
        /\ dKind' = "exception"
        /\ dReq' = NoRequest
        /\ dOut' = NoOutcome
        /\ dResp' = ExceptionResponse(exc, context)
        /\ dWire' = to_json(dResp')
        /\ UNCHANGED <<tools, dLog>>
        /\ UNCHANGED codecVars
        /\ UNCHANGED serverVars
        /\ UNCHANGED monitorVars
        /\ UNCHANGED stdioVars
        /\ UNCHANGED httpVars

\* The collaborators of a call during which the codec fails unexpectedly.
FailingCodecEnv == [logFails |-> FALSE, metricFails |-> FALSE, codecFails |-> TRUE]

\* A transport hands a tools/call to the dispatcher, and the codec raises an
\* exception that is no ValueError when the tool calls it.
DispatchCodecFailure ==
    \E request \in {dReq} \cap CallRequests :
        /\ dKind = "pending"
        /\ dKind' = "codec_failure"
        /\ dReq' = request
        /\ dOut' = handle_request(request, tools, FailingCodecEnv)
        /\ dResp' = TransportResponse("dispatcher", "", request, dOut')
        /\ dWire' = to_json(dResp')
        /\ UNCHANGED <<tools, dLog>>
        /\ UNCHANGED codecVars
        /\ UNCHANGED serverVars
        /\ UNCHANGED monitorVars
        /\ UNCHANGED stdioVars
        /\ UNCHANGED httpVars

\* The collaborators of a call during which log_request raises, and of one
\* during which record_request raises.
FailingLogEnv == [logFails |-> TRUE, metricFails |-> FALSE, codecFails |-> FALSE]
FailingMetricEnv == [logFails |-> FALSE, metricFails |-> TRUE, codecFails |-> FALSE]

\* A transport hands a request to the dispatcher while the logging or the
\* metrics collaborator fails: handle_request calls log_request and
\* record_request inside its try statement and log_request again in its except
\* clause, none of them guarded.
DispatchRecordingFailure ==
    \E request \in {dReq}, fault \in {"log_failure", "metric_failure"} :
        /\ dKind = "pending"
        /\ dKind' = fault
        /\ dReq' = request
        /\ dOut' = handle_request(request, tools,
                                  IF fault = "log_failure" THEN FailingLogEnv
                                  ELSE FailingMetricEnv)
        /\ dResp' = TransportResponse("dispatcher", "", request, dOut')
        /\ dWire' = to_json(dResp')
        /\ UNCHANGED <<tools, dLog>>
        /\ UNCHANGED codecVars
        /\ UNCHANGED serverVars
        /\ UNCHANGED monitorVars
        /\ UNCHANGED stdioVars
        /\ UNCHANGED httpVars

NextMessages ==
    \/ DispatchRequest
    \/ DispatchCodecFailure
    \/ DispatchRecordingFailure
    \/ DispatchNoHandler
    \/ DispatchRaisingHandler
    \/ EmitParseError
    \/ EmitException

SpecMessages == MessagesInit /\ [][NextMessages]_vars

\* ------------------------------------------------------ the stream transport

\* Transport.set_request_handler, called on the stream transport.
SetRequestHandler ==
    /\ ~sHandlerSet
    /\ sHandlerSet' = TRUE
    /\ UNCHANGED <<sRunning, sStopEvent, sStarted, sWorker, sLines, sEof, sHandled,
                   sRaised, sOut>>
    /\ UNCHANGED <<sHeldAtStop, sLateRead>>
    /\ UNCHANGED codecVars
    /\ UNCHANGED serverVars
    /\ UNCHANGED monitorVars
    /\ UNCHANGED dispatchVars
    /\ UNCHANGED httpVars

\* A start that does not test the running flag: every call creates a thread.
Start_Again ==
    /\ sStarted < MaxStarts
    /\ sRunning' = TRUE
    /\ sStopEvent' = FALSE
    /\ sStarted' = sStarted + 1
    /\ sWorker' = [sWorker EXCEPT ![sStarted + 1] =
                      [pc |-> "check", line |-> 0, resp |-> NoResponse]]
    /\ UNCHANGED <<sHandlerSet, sLines, sEof, sHandled, sRaised, sOut>>
    /\ UNCHANGED <<sHeldAtStop, sLateRead>>
    /\ UNCHANGED codecVars
    /\ UNCHANGED serverVars
    /\ UNCHANGED monitorVars
    /\ UNCHANGED dispatchVars
    /\ UNCHANGED httpVars

\* StdioTransport.start: a no-op when running; otherwise a new input thread,
\* which begins at the loop test of _input_loop.
Start ==
    /\ sStarted < MaxStarts
    /\ IF sRunning
       THEN UNCHANGED <<sRunning, sStopEvent, sStarted, sWorker>>
       ELSE /\ sRunning' = TRUE
            /\ sStopEvent' = FALSE
            /\ sStarted' = sStarted + 1
            /\ sWorker' = [sWorker EXCEPT ![sStarted + 1] =
                              [pc |-> "check", line |-> 0, resp |-> NoResponse]]
    /\ UNCHANGED <<sHandlerSet, sLines, sEof, sHandled, sRaised, sOut>>
    /\ UNCHANGED <<sHeldAtStop, sLateRead>>
    /\ UNCHANGED codecVars
    /\ UNCHANGED serverVars
    /\ UNCHANGED monitorVars
    /\ UNCHANGED dispatchVars
    /\ UNCHANGED httpVars

\* StdioTransport.stop: a no-op when not running; otherwise it clears the flag,
\* sets the stop event and waits at most one second for the input thread, so it
\* returns whether or not the thread has ended.
Stop ==
    /\ IF ~sRunning
       THEN UNCHANGED <<sRunning, sStopEvent, sHeldAtStop>>
       ELSE /\ sRunning' = FALSE
            /\ sStopEvent' = TRUE
            /\ sHeldAtStop' =
                   sHeldAtStop \cup ({sWorker[w].line : w \in Workers} \ {0})
    /\ UNCHANGED <<sHandlerSet, sStarted, sWorker, sLines, sEof, sHandled, sRaised, sOut>>
    /\ UNCHANGED sLateRead
    /\ UNCHANGED codecVars
    /\ UNCHANGED serverVars
    /\ UNCHANGED monitorVars
    /\ UNCHANGED dispatchVars
    /\ UNCHANGED httpVars

\* _input_loop, line 112: the loop test.
LoopTest(w) ==
    /\ sWorker[w].pc = "check"
    /\ sWorker' = [sWorker EXCEPT ![w].pc =
                      IF sRunning /\ ~sStopEvent THEN "read" ELSE "finally"]
    /\ UNCHANGED <<sRunning, sStopEvent, sHandlerSet, sStarted, sLines, sEof, sHandled,
                   sRaised, sOut>>
    /\ UNCHANGED <<sHeldAtStop, sLateRead>>
    /\ UNCHANGED codecVars
    /\ UNCHANGED serverVars
    /\ UNCHANGED monitorVars
    /\ UNCHANGED dispatchVars
    /\ UNCHANGED httpVars

\* _input_loop, lines 115-123: readline returns a line; a blank one is skipped.
\* The read blocks, so it may return after stop() has set the stop event.
ReadLine(w) ==
    \E line \in StreamLines :
        /\ sWorker[w].pc = "read"
        /\ ~sEof
        /\ Len(sLines) < MaxLines
        /\ sLines' = Append(sLines, line)
        /\ sWorker' = [sWorker EXCEPT ![w] =
                          IF line.kind = "blank"
                          THEN [pc |-> "check", line |-> 0, resp |-> NoResponse]
                          ELSE [pc |-> "parse", line |-> Len(sLines) + 1,
                                resp |-> NoResponse]]
        /\ sLateRead' = IF sStopEvent /\ line.kind # "blank"
                         THEN sLateRead \cup {Len(sLines) + 1}
                         ELSE sLateRead
        /\ UNCHANGED <<sRunning, sStopEvent, sHandlerSet, sStarted, sEof, sHandled,
                       sRaised, sOut>>
        /\ UNCHANGED sHeldAtStop
        /\ UNCHANGED codecVars
        /\ UNCHANGED serverVars
        /\ UNCHANGED monitorVars
        /\ UNCHANGED dispatchVars
        /\ UNCHANGED httpVars

\* An input loop that takes end-of-stream for a blank line and tests the loop
\* condition again.
ReadEof_Continue(w) ==
    /\ sWorker[w].pc = "read"
    /\ sEof' = TRUE
    /\ sWorker' = [sWorker EXCEPT ![w].pc = "check"]
    /\ UNCHANGED <<sRunning, sStopEvent, sHandlerSet, sStarted, sLines, sHandled, sRaised,
                   sOut>>
    /\ UNCHANGED <<sHeldAtStop, sLateRead>>
    /\ UNCHANGED codecVars
    /\ UNCHANGED serverVars
    /\ UNCHANGED monitorVars
    /\ UNCHANGED dispatchVars
    /\ UNCHANGED httpVars

\* _input_loop, lines 115-119: readline returns end-of-stream and the loop is left.
ReadEof(w) ==
    /\ sWorker[w].pc = "read"
    /\ sEof' = TRUE
    /\ sWorker' = [sWorker EXCEPT ![w].pc = "finally"]
    /\ UNCHANGED <<sRunning, sStopEvent, sHandlerSet, sStarted, sLines, sHandled, sRaised,
                   sOut>>
    /\ UNCHANGED <<sHeldAtStop, sLateRead>>
    /\ UNCHANGED codecVars
    /\ UNCHANGED serverVars
    /\ UNCHANGED monitorVars
    /\ UNCHANGED dispatchVars
    /\ UNCHANGED httpVars

\* _input_loop, lines 126-127 and the except clauses entered from there:
\* MCPRequest.from_json raises JSONDecodeError for text that is not JSON and
\* AttributeError for JSON that is not an object.
ParseLine(w) ==
    /\ sWorker[w].pc = "parse"
    /\ sWorker' = [sWorker EXCEPT ![w] =
                      IF sLines[sWorker[w].line].kind = "badjson"
                      THEN [@ EXCEPT !.pc = "send", !.resp = ParseErrorResponse]
                      ELSE IF sLines[sWorker[w].line].kind = "nonobject"
                      THEN [@ EXCEPT !.pc = "send_except",
                                     !.resp = ExceptionResponse("AttributeError",
                                                                "Input processing error")]
                      ELSE [@ EXCEPT !.pc = "dispatch"]]
    /\ UNCHANGED <<sRunning, sStopEvent, sHandlerSet, sStarted, sLines, sEof, sHandled,
                   sRaised, sOut>>
    /\ UNCHANGED <<sHeldAtStop, sLateRead>>
    /\ UNCHANGED codecVars
    /\ UNCHANGED serverVars
    /\ UNCHANGED monitorVars
    /\ UNCHANGED dispatchVars
    /\ UNCHANGED httpVars

\* The behaviours of the transport's handler for one request: none registered,
\* or the registered handler returns the dispatcher's response or raises.
HandlerBehaviours == IF sHandlerSet THEN {"dispatcher", "raising"} ELSE {"none"}

\* _input_loop, line 130: response = self._handle_request(request).
Dispatch(w) ==
    \E handler \in HandlerBehaviours :
        /\ sWorker[w].pc = "dispatch"
        /\ sWorker' = [sWorker EXCEPT
                          ![w].pc = "send",
                          ![w].resp =
                              TransportResponse(
                                  handler, "RuntimeError",
                                  from_json(sLines[sWorker[w].line].obj),
                                  handle_request(from_json(sLines[sWorker[w].line].obj),
                                                 tools, ReliableEnv))]
        /\ sHandled' = IF handler = "none" THEN sHandled
                       ELSE sHandled \cup {sWorker[w].line}
        /\ sRaised' = IF handler = "raising" THEN sRaised \cup {sWorker[w].line}
                      ELSE sRaised
        /\ UNCHANGED <<sRunning, sStopEvent, sHandlerSet, sStarted, sLines, sEof, sOut>>
        /\ UNCHANGED <<sHeldAtStop, sLateRead>>
        /\ UNCHANGED codecVars
        /\ UNCHANGED serverVars
        /\ UNCHANGED monitorVars
        /\ UNCHANGED dispatchVars
        /\ UNCHANGED httpVars

\* StdioTransport.send_response called at line 131 or 140: it raises
\* RuntimeError when the transport is not running, and the except clause of line
\* 142 then builds an error response; otherwise the response is written.
Send(w) ==
    /\ sWorker[w].pc = "send"
    /\ IF ~sRunning
       THEN /\ sWorker' = [sWorker EXCEPT
                              ![w].pc = "send_except",
                              ![w].resp = ExceptionResponse("RuntimeError",
                                                            "Input processing error")]
            /\ UNCHANGED sOut
       ELSE /\ sOut' = Append(sOut, [line |-> sWorker[w].line,
                                     wire |-> to_json(sWorker[w].resp),
                                     except |-> FALSE])
            /\ sWorker' = [sWorker EXCEPT ![w] =
                              [pc |-> "check", line |-> 0, resp |-> NoResponse]]
    /\ UNCHANGED <<sRunning, sStopEvent, sHandlerSet, sStarted, sLines, sEof, sHandled,
                   sRaised>>
    /\ UNCHANGED <<sHeldAtStop, sLateRead>>
    /\ UNCHANGED codecVars
    /\ UNCHANGED serverVars
    /\ UNCHANGED monitorVars
    /\ UNCHANGED dispatchVars
    /\ UNCHANGED httpVars

\* StdioTransport.send_response called at line 149, in the except clause: when
\* it raises, the exception leaves the loop (lines 151-155).
SendExcept(w) ==
    /\ sWorker[w].pc = "send_except"
    /\ IF ~sRunning
       THEN /\ sWorker' = [sWorker EXCEPT ![w] =
                              [pc |-> "finally", line |-> 0, resp |-> NoResponse]]
            /\ UNCHANGED sOut
       ELSE /\ sOut' = Append(sOut, [line |-> sWorker[w].line,
                                     wire |-> to_json(sWorker[w].resp),
                                     except |-> TRUE])
            /\ sWorker' = [sWorker EXCEPT ![w] =
                              [pc |-> "check", line |-> 0, resp |-> NoResponse]]
    /\ UNCHANGED <<sRunning, sStopEvent, sHandlerSet, sStarted, sLines, sEof, sHandled,
                   sRaised>>
    /\ UNCHANGED <<sHeldAtStop, sLateRead>>
    /\ UNCHANGED codecVars
    /\ UNCHANGED serverVars
    /\ UNCHANGED monitorVars
    /\ UNCHANGED dispatchVars
    /\ UNCHANGED httpVars

\* _input_loop, lines 156-157: the finally clause, and the thread ends.
Finally(w) ==
    /\ sWorker[w].pc = "finally"
    /\ sRunning' = FALSE
    /\ sWorker' = [sWorker EXCEPT ![w].pc = "done"]
    /\ UNCHANGED <<sStopEvent, sHandlerSet, sStarted, sLines, sEof, sHandled, sRaised,
                   sOut>>
    /\ UNCHANGED <<sHeldAtStop, sLateRead>>
    /\ UNCHANGED codecVars
    /\ UNCHANGED serverVars
    /\ UNCHANGED monitorVars
    /\ UNCHANGED dispatchVars
    /\ UNCHANGED httpVars

Init ==
    CodecIdle /\ DispatchInit /\ StdioInit /\ HttpInit /\ MonitorInit /\ ServerIdle

Next ==
    \/ SetRequestHandler
    \/ Start
    \/ Stop
    \/ \E w \in Workers : LoopTest(w)
    \/ \E w \in Workers : ReadLine(w)
    \/ \E w \in Workers : ReadEof(w)
    \/ \E w \in Workers : ParseLine(w)
    \/ \E w \in Workers : Dispatch(w)
    \/ \E w \in Workers : Send(w)
    \/ \E w \in Workers : SendExcept(w)
    \/ \E w \in Workers : Finally(w)

Spec == Init /\ [][Next]_vars

\* ----------------------------------------------------- the network transport

\* Transport.set_request_handler, called on the network transport.
HttpSetRequestHandler ==
    /\ ~hHandlerSet
    /\ hHandlerSet' = TRUE
    /\ UNCHANGED <<hRunning, hServer, hClient, hCur, hPc, hReq, hResp>>
    /\ UNCHANGED codecVars
    /\ UNCHANGED serverVars
    /\ UNCHANGED monitorVars
    /\ UNCHANGED dispatchVars
    /\ UNCHANGED stdioVars

\* HTTPTransport.start: a no-op when running; otherwise it binds an HTTPServer
\* and starts the one thread that runs serve_forever.
HttpStart ==
    /\ hServer \in {"none", "serving", "closed"}
    /\ IF hRunning
       THEN UNCHANGED <<hRunning, hServer>>
       ELSE /\ hRunning' = TRUE
            /\ hServer' = "serving"
    /\ UNCHANGED <<hHandlerSet, hClient, hCur, hPc, hReq, hResp>>
    /\ UNCHANGED codecVars
    /\ UNCHANGED serverVars
    /\ UNCHANGED monitorVars
    /\ UNCHANGED dispatchVars
    /\ UNCHANGED stdioVars

\* HTTPTransport.stop up to its call of shutdown(): a no-op when not running;
\* otherwise it clears the flag and asks serve_forever to return.
HttpStop ==
    /\ hServer \in {"none", "serving", "closed"}
    /\ IF ~hRunning
       THEN UNCHANGED <<hRunning, hServer>>
       ELSE /\ hRunning' = FALSE
            /\ hServer' = "stopping"
    /\ UNCHANGED <<hHandlerSet, hClient, hCur, hPc, hReq, hResp>>
    /\ UNCHANGED codecVars
    /\ UNCHANGED serverVars
    /\ UNCHANGED monitorVars
    /\ UNCHANGED dispatchVars
    /\ UNCHANGED stdioVars

\* serve_forever returns: the thread is between requests and shutdown() was
\* requested.
ServeForeverReturns ==
    /\ hServer = "stopping"
    /\ hCur = 0
    /\ hServer' = "stopped"
    /\ UNCHANGED <<hRunning, hHandlerSet, hClient, hCur, hPc, hReq, hResp>>
    /\ UNCHANGED codecVars
    /\ UNCHANGED serverVars
    /\ UNCHANGED monitorVars
    /\ UNCHANGED dispatchVars
    /\ UNCHANGED stdioVars

\* HTTPTransport.stop after shutdown() has returned: server_close() closes the
\* listening socket, and the connections nobody accepted are reset.
HttpServerClose ==
    /\ hServer = "stopped"
    /\ hServer' = "closed"
    /\ hClient' = [c \in Clients |->
                      IF hClient[c].st = "posted"
                      THEN [hClient[c] EXCEPT !.st = "refused"]
                      ELSE hClient[c]]
    /\ UNCHANGED <<hRunning, hHandlerSet, hCur, hPc, hReq, hResp>>
    /\ UNCHANGED codecVars
    /\ UNCHANGED serverVars
    /\ UNCHANGED monitorVars
    /\ UNCHANGED dispatchVars
    /\ UNCHANGED stdioVars

\* Requests of other clients that have been sent and not yet answered.
InFlight(c) == {d \in Clients \ {c} : hClient[d].st \in {"posted", "handling"}}

\* Client c sends its request: the connection waits in the listening socket's
\* queue, or is refused when no socket listens.
ClientPost(c) ==
    \E msg \in HttpMessages(c) :
        /\ hClient[c].st = "idle"
        /\ hClient' = [hClient EXCEPT ![c] =
                          [st |-> IF hServer \in {"serving", "stopping", "stopped"}
                                  THEN "posted" ELSE "refused",
                           msg |-> msg,
                           overlap |-> InFlight(c) # {},
                           handler |-> "",
                           resp |-> NoHttpResponse]]
        /\ UNCHANGED <<hRunning, hServer, hHandlerSet, hCur, hPc, hReq, hResp>>
        /\ UNCHANGED codecVars
        /\ UNCHANGED serverVars
        /\ UNCHANGED monitorVars
        /\ UNCHANGED dispatchVars
        /\ UNCHANGED stdioVars

\* serve_forever accepts a waiting connection. HTTPServer handles a request in
\* the thread that runs serve_forever, so it accepts the next connection only
\* once the request in hand is finished.
Accept(c) ==
    /\ hServer = "serving"
    /\ hCur = 0
    /\ hClient[c].st = "posted"
    /\ hCur' = c
    /\ hPc' = "parse"
    /\ hClient' = [hClient EXCEPT ![c].st = "handling"]
    /\ UNCHANGED <<hRunning, hServer, hHandlerSet, hReq, hResp>>
    /\ UNCHANGED codecVars
    /\ UNCHANGED serverVars
    /\ UNCHANGED monitorVars
    /\ UNCHANGED dispatchVars
    /\ UNCHANGED stdioVars

\* The body of the 404 answer of do_POST.
NotFoundBody ==
    [members |-> {"error"}, id |-> JAbsent, result |-> NoResultValue,
     error |-> MCPError(404, "Endpoint not found. Use /mcp for MCP requests.", "", "",
                        "")]

\* What do_POST, do_OPTIONS or the base class answers before any request is
\* built; status 0 when do_POST goes on to build the MCPRequest.
EarlyResponse(msg) ==
    IF msg.verb = "OPTIONS" THEN HttpResponse(200, TRUE, NoWire)
    ELSE IF msg.verb # "POST" THEN HttpResponse(501, FALSE, NoWire)
    ELSE IF msg.path # "/mcp" THEN HttpResponse(404, TRUE, NotFoundBody)
    ELSE IF msg.body.kind = "badutf8"
    THEN HttpResponse(500, TRUE,
                      to_json(ExceptionResponse("ValueError",
                                                "HTTP request processing error")))
    ELSE IF msg.body.kind = "badjson"
    THEN HttpResponse(400, TRUE, to_json(ParseErrorResponse))
    ELSE IF msg.body.kind # "object"
    THEN HttpResponse(500, TRUE,
                      to_json(ExceptionResponse("AttributeError",
                                                "HTTP request processing error")))
    ELSE NoHttpResponse

\* do_POST up to the MCPRequest it builds (lines 58-81), do_OPTIONS, and the
\* base class's answer to a verb the handler does not define.
ParseHttp ==
    /\ hPc = "parse"
    /\ IF EarlyResponse(hClient[hCur].msg) # NoHttpResponse
       THEN /\ hResp' = EarlyResponse(hClient[hCur].msg)
            /\ hPc' = "respond"
            /\ UNCHANGED hReq
       ELSE /\ hReq' = from_json(hClient[hCur].msg.body.obj)
            /\ hPc' = "dispatch"
            /\ UNCHANGED hResp
    /\ UNCHANGED <<hRunning, hServer, hHandlerSet, hClient, hCur>>
    /\ UNCHANGED codecVars
    /\ UNCHANGED serverVars
    /\ UNCHANGED monitorVars
    /\ UNCHANGED dispatchVars
    /\ UNCHANGED stdioVars

\* The behaviours of the network transport's handler for one request.
HttpHandlerBehaviours == IF hHandlerSet THEN {"dispatcher", "raising"} ELSE {"none"}

\* do_POST, line 84: response = self.transport._handle_request(mcp_request).
DispatchHttp ==
    \E handler \in HttpHandlerBehaviours :
        /\ hPc = "dispatch"
        /\ hResp' = HttpResponse(200, TRUE,
                                 to_json(TransportResponse(
                                     handler, "RuntimeError", hReq,
                                     handle_request(hReq, tools, ReliableEnv))))
        /\ hClient' = [hClient EXCEPT ![hCur].handler = handler]
        /\ hPc' = "respond"
        /\ UNCHANGED <<hRunning, hServer, hHandlerSet, hCur, hReq>>
        /\ UNCHANGED codecVars
        /\ UNCHANGED serverVars
        /\ UNCHANGED monitorVars
        /\ UNCHANGED dispatchVars
        /\ UNCHANGED stdioVars

\* A server that writes the answer to whichever connection is waiting.
Respond_AnyConnection ==
    \E c \in Clients :
        /\ hPc = "respond"
        /\ hClient[c].st \in {"posted", "handling"}
        /\ hClient' = [hClient EXCEPT ![c].st = "answered", ![c].resp = hResp]
        /\ hCur' = 0
        /\ hPc' = "idle"
        /\ hReq' = NoRequest
        /\ hResp' = NoHttpResponse
        /\ UNCHANGED <<hRunning, hServer, hHandlerSet>>
        /\ UNCHANGED codecVars
        /\ UNCHANGED serverVars
        /\ UNCHANGED monitorVars
        /\ UNCHANGED dispatchVars
        /\ UNCHANGED stdioVars

\* _send_json_response: the answer is written to the connection in hand, and the
\* server thread returns to serve_forever.
Respond ==
    /\ hPc = "respond"
    /\ hClient' = [hClient EXCEPT ![hCur].st = "answered", ![hCur].resp = hResp]
    /\ hCur' = 0
    /\ hPc' = "idle"
    /\ hReq' = NoRequest
    /\ hResp' = NoHttpResponse
    /\ UNCHANGED <<hRunning, hServer, hHandlerSet>>
    /\ UNCHANGED codecVars
    /\ UNCHANGED serverVars
    /\ UNCHANGED monitorVars
    /\ UNCHANGED dispatchVars
    /\ UNCHANGED stdioVars

\* The steps of the server thread.
ServerThread ==
    \/ \E c \in Clients : Accept(c)
    \/ ParseHttp
    \/ DispatchHttp
    \/ Respond
    \/ ServeForeverReturns

NextHttp ==
    \/ HttpSetRequestHandler
    \/ HttpStart
    \/ HttpStop
    \/ HttpServerClose
    \/ \E c \in Clients : ClientPost(c)
    \/ ServerThread

SpecHttp == Init /\ [][NextHttp]_vars

\* The server thread is scheduled: a step it can take is eventually taken.
SpecHttpFair == SpecHttp /\ WF_vars(ServerThread)

\* start() and stop() of both transports, with the steps that follow from them:
\* the input thread reaching its loop test, end-of-stream and the finally
\* clause, and the HTTP server thread leaving serve_forever.
NextLifecycle ==
    \/ Start
    \/ Stop
    \/ \E w \in Workers : LoopTest(w)
    \/ \E w \in Workers : ReadEof(w)
    \/ \E w \in Workers : Finally(w)
    \/ HttpStart
    \/ HttpStop
    \/ ServeForeverReturns
    \/ HttpServerClose

SpecLifecycle == Init /\ [][NextLifecycle]_vars

\* ------------------------------------------------- MCPBase64Server.run

\* MCPBase64Server.initialize, called first by run(): it creates the transport
\* the configuration names, the stream or the network one, and registers the
\* dispatcher's handle_request on it.
RunInitialize ==
    /\ ~sHandlerSet /\ ~hHandlerSet
    /\ sStarted = 0 /\ hServer = "none"
    /\ \/ SetRequestHandler
       \/ HttpSetRequestHandler

\* A run() that starts the transport it is configured for without having
\* called initialize().
RunStart_BeforeInitialize ==
    \/ /\ ~hHandlerSet /\ sStarted = 0
       /\ Start
    \/ /\ ~sHandlerSet /\ hServer = "none"
       /\ HttpStart

\* MCPBase64Server.start, called by run() once initialize() has returned: it
\* starts the transport initialize() created.
RunStart ==
    \/ /\ sHandlerSet /\ sStarted = 0
       /\ Start
    \/ /\ hHandlerSet /\ hServer = "none"
       /\ HttpStart

\* MCPBase64Server.stop, called by the finally clause of run(): it stops the
\* transport that was started.
RunStop ==
    \/ /\ sStarted = 1 /\ sRunning
       /\ Stop
    \/ /\ hServer = "serving"
       /\ HttpStop

NextRun ==
    \/ RunInitialize
    \/ RunStart
    \/ RunStop
    \/ \E w \in Workers : LoopTest(w)
    \/ \E w \in Workers : ReadLine(w)
    \/ \E w \in Workers : ReadEof(w)
    \/ \E w \in Workers : ParseLine(w)
    \/ \E w \in Workers : Dispatch(w)
    \/ \E w \in Workers : Send(w)
    \/ \E w \in Workers : SendExcept(w)
    \/ \E w \in Workers : Finally(w)
    \/ HttpServerClose
    \/ \E c \in Clients : ClientPost(c)
    \/ ServerThread

SpecRun == Init /\ [][NextRun]_vars

\* ------------------------------------------- one dispatcher, many requests

\* The requests of a session: the four methods, a call of an unknown tool, a
\* call with its argument missing and an invalid envelope.
SessionRequests ==
    {MCPRequest(JStr("2.0"), JInt("7"), JStr(method), ParamsOf("obj")) :
        method \in {"initialize", "tools/list", "ping"}}
    \cup {MCPRequest(JStr("2.0"), JInt("7"), JStr("tools/call"), ParamsObj(JStr(name), a)) :
            name \in {"base64_encode", "no_such_tool"},
            a \in {ArgsObj(TStr(<<65>>), TAbsent), ArgsOf("obj")}}
    \cup {MCPRequest(JStr("1.0"), JInt("7"), JStr("ping"), ParamsOf("obj"))}

\* A dispatcher that serves nothing but initialize until initialize has been
\* handled.
SessionResponse_NeedsInitialize(request, registry, log) ==
    IF \/ request.method = JStr("initialize")
       \/ \E i \in 1..Len(log) : log[i].req.method = JStr("initialize")
    THEN handle_request(request, registry, ReliableEnv).resp
    ELSE InvalidRequestResponse(request)

\* What handle_request returns for a request when `log` holds the requests
\* the same MCPProtocolHandler handled before: the handlers read the request
\* and self.tools and nothing else, no attribute records an earlier request.
SessionResponse(request, registry, log) ==
    handle_request(request, registry, ReliableEnv).resp

\* A dispatcher whose tools/call forgets a tool once a call of it has failed.
RegistryAfter_DropsFailedTool(request, registry, response) ==
    IF request.method = JStr("tools/call") /\ ~response.error.none
    THEN SelectSeq(registry, LAMBDA t : JStr(t) # request.params.name)
    ELSE registry

\* self.tools once handle_request has returned `response` for `request`:
\* _register_tools, called by __init__, holds the only assignments to it.
RegistryAfter(request, registry, response) ==
    registry

\* The dispatcher handles one more request.
HandleInSession ==
    \E request \in SessionRequests :
        /\ Len(dLog) < MaxSession
        /\ dKind' = "session"
        /\ dReq' = request
        /\ dOut' = handle_request(request, tools, ReliableEnv)
        /\ dResp' = SessionResponse(request, tools, dLog)
        /\ dWire' = to_json(dResp')
        /\ dLog' = Append(dLog, [req |-> request, resp |-> dResp'])
        /\ tools' = RegistryAfter(request, tools, dResp')
        /\ UNCHANGED codecVars
        /\ UNCHANGED serverVars
        /\ UNCHANGED monitorVars
        /\ UNCHANGED stdioVars
        /\ UNCHANGED httpVars

SpecSession == Init /\ [][HandleInSession]_vars

\* ---------------------------------------------------- the performance monitor

\* The counter add_request updates for the outcome (lines 66-69).
OutcomeCounter(success) ==
    IF success THEN "successful_requests" ELSE "failed_requests"

\* record_request is called by thread t: PerformanceMonitor.record_request
\* (line 253) looks the operation's RequestMetrics up and calls add_request.
\* No lock is taken on this path.
RecordRequest(t) ==
    \E operation \in Operations, success \in BOOLEAN :
        /\ mThread[t].pc = "idle"
        /\ mCalls["mcp_ping"] + mCalls["mcp_tools/call"] < MaxRecords
        /\ mCalls' = [mCalls EXCEPT ![operation] = @ + 1]
        /\ mThread' = [mThread EXCEPT ![t] =
                          [pc |-> "load_total", operation |-> operation,
                           success |-> success, loaded |-> 0]]
        /\ UNCHANGED mMetrics
        /\ UNCHANGED codecVars
        /\ UNCHANGED serverVars
        /\ UNCHANGED dispatchVars
        /\ UNCHANGED stdioVars
        /\ UNCHANGED httpVars

\* add_request, line 62, `self.total_requests += 1`: the attribute is loaded.
LoadTotal(t) ==
    /\ mThread[t].pc = "load_total"
    /\ mThread' = [mThread EXCEPT
                      ![t].pc = "store_total",
                      ![t].loaded = mMetrics[mThread[t].operation].total_requests]
    /\ UNCHANGED <<mMetrics, mCalls>>
    /\ UNCHANGED codecVars
    /\ UNCHANGED serverVars
    /\ UNCHANGED dispatchVars
    /\ UNCHANGED stdioVars
    /\ UNCHANGED httpVars

\* add_request, line 62: the loaded value plus one is stored.
StoreTotal(t) ==
    /\ mThread[t].pc = "store_total"
    /\ mMetrics' = [mMetrics EXCEPT
                       ![mThread[t].operation].total_requests = mThread[t].loaded + 1]
    /\ mThread' = [mThread EXCEPT ![t].pc = "load_outcome", ![t].loaded = 0]
    /\ UNCHANGED mCalls
    /\ UNCHANGED codecVars
    /\ UNCHANGED serverVars
    /\ UNCHANGED dispatchVars
    /\ UNCHANGED stdioVars
    /\ UNCHANGED httpVars

\* add_request, lines 66-69: the counter of the outcome is loaded.
LoadOutcome(t) ==
    /\ mThread[t].pc = "load_outcome"
    /\ mThread' = [mThread EXCEPT
                      ![t].pc = "store_outcome",
                      ![t].loaded =
                          mMetrics[mThread[t].operation][OutcomeCounter(mThread[t].success)]]
    /\ UNCHANGED <<mMetrics, mCalls>>
    /\ UNCHANGED codecVars
    /\ UNCHANGED serverVars
    /\ UNCHANGED dispatchVars
    /\ UNCHANGED stdioVars
    /\ UNCHANGED httpVars

\* add_request, lines 66-69: the loaded value plus one is stored, and
\* record_request returns.
StoreOutcome(t) ==
    /\ mThread[t].pc = "store_outcome"
    /\ mMetrics' = [mMetrics EXCEPT
                       ![mThread[t].operation][OutcomeCounter(mThread[t].success)] =
                           mThread[t].loaded + 1]
    /\ mThread' = [mThread EXCEPT ![t] = IdleThread]
    /\ UNCHANGED mCalls
    /\ UNCHANGED codecVars
    /\ UNCHANGED serverVars
    /\ UNCHANGED dispatchVars
    /\ UNCHANGED stdioVars
    /\ UNCHANGED httpVars

NextMonitor ==
    \/ \E t \in MonitorThreads : RecordRequest(t)
    \/ \E t \in MonitorThreads : LoadTotal(t)
    \/ \E t \in MonitorThreads : StoreTotal(t)
    \/ \E t \in MonitorThreads : LoadOutcome(t)
    \/ \E t \in MonitorThreads : StoreOutcome(t)

SpecMonitor == Init /\ [][NextMonitor]_vars

\* ------------------------------------------------------ MCPBase64Server.run

\* run() has been called on a server built for one of the configurations.
ServerInit ==
    /\ CodecIdle
    /\ DispatchInit
    /\ StdioInit
    /\ HttpInit
    /\ MonitorInit
    /\ rConfig \in {Config(t, a) : t \in {"stdio", "http"}, a \in BOOLEAN}
    /\ rPc = "initialize"
    /\ rRunning = FALSE
    /\ rShutdown = FALSE
    /\ rApi = "none"
    /\ rMonitoring = FALSE
    /\ rRaise = FALSE

\* The transport initialize() created has its request handler.
TransportHandlerSet ==
    IF rConfig.transport = "stdio" THEN sHandlerSet ELSE hHandlerSet

\* The transport's start() has been called and has returned.
TransportStarted ==
    IF rConfig.transport = "stdio" THEN sStarted = 1 ELSE hServer = "serving"

\* The transport's stop() has returned.
TransportStopped ==
    IF rConfig.transport = "stdio" THEN ~sRunning
    ELSE ~hRunning /\ hServer \in {"none", "closed"}

\* initialize(), lines 215-228: the transport is created and given the
\* dispatcher as its request handler.
ServerSetHandler ==
    /\ rPc = "initialize"
    /\ ~TransportHandlerSet
    /\ \/ /\ rConfig.transport = "stdio"
          /\ SetRequestHandler
       \/ /\ rConfig.transport = "http"
          /\ HttpSetRequestHandler

\* initialize(), lines 230-242: the HTTP API server is created when enabled and
\* system monitoring is started; run() goes on to start().
ServerInitialized ==
    /\ rPc = "initialize"
    /\ TransportHandlerSet
    /\ rApi' = IF rConfig.api THEN "created" ELSE "none"
    /\ rMonitoring' = TRUE
    /\ rPc' = "start_api"
    /\ UNCHANGED <<rConfig, rRunning, rShutdown, rRaise>>
    /\ UNCHANGED codecVars
    /\ UNCHANGED dispatchVars
    /\ UNCHANGED stdioVars
    /\ UNCHANGED httpVars
    /\ UNCHANGED monitorVars

\* start(), lines 257-260: http_server.start() binds its port and returns, or
\* raises RuntimeError when the port cannot be bound.
ServerStartApi ==
    /\ rPc = "start_api"
    /\ \/ /\ rApi = "none"
          /\ rPc' = "start_transport"
          /\ UNCHANGED rApi
       \/ /\ rApi = "created"
          /\ rApi' = "running"
          /\ rPc' = "start_transport"
       \/ /\ rApi = "created"
          /\ rPc' = "start_except"
          /\ UNCHANGED rApi
    /\ UNCHANGED <<rConfig, rRunning, rShutdown, rMonitoring, rRaise>>
    /\ UNCHANGED codecVars
    /\ UNCHANGED dispatchVars
    /\ UNCHANGED stdioVars
    /\ UNCHANGED httpVars
    /\ UNCHANGED monitorVars

\* start(), line 265: self.transport.start().
ServerStartTransport ==
    /\ rPc = "start_transport"
    /\ ~TransportStarted
    /\ \/ /\ rConfig.transport = "stdio"
          /\ Start
       \/ /\ rConfig.transport = "http"
          /\ HttpStart

\* start(), line 265: HTTPTransport.start() cannot bind its port and raises
\* RuntimeError, leaving the transport not running (http_transport.py, lines
\* 243-245).
ServerStartTransportFails ==
    /\ rPc = "start_transport"
    /\ rConfig.transport = "http"
    /\ ~TransportStarted
    /\ rPc' = "start_except"
    /\ UNCHANGED <<rConfig, rRunning, rShutdown, rApi, rMonitoring, rRaise>>
    /\ UNCHANGED codecVars
    /\ UNCHANGED dispatchVars
    /\ UNCHANGED stdioVars
    /\ UNCHANGED httpVars
    /\ UNCHANGED monitorVars

\* start(), lines 267-272, after the transport's start() returned: the running
\* flag is set and run() enters its wait.
ServerStarted ==
    /\ rPc = "start_transport"
    /\ TransportStarted
    /\ rRunning' = TRUE
    /\ rPc' = "wait"
    /\ UNCHANGED <<rConfig, rShutdown, rApi, rMonitoring, rRaise>>
    /\ UNCHANGED codecVars
    /\ UNCHANGED dispatchVars
    /\ UNCHANGED stdioVars
    /\ UNCHANGED httpVars
    /\ UNCHANGED monitorVars

\* What stop() does once it has tested the running flag (lines 285-289): it
\* returns at once when the flag is clear, else it clears the flag and goes on
\* to stop the components.
StopEntered(pcAfterReturn) ==
    /\ rPc' = IF rRunning THEN "stop_transport" ELSE pcAfterReturn
    /\ rRunning' = FALSE

\* start(), lines 274-277: the except clause calls self.stop() and raises
\* again. The running flag is set only after the transport has started, so this
\* stop() finds it clear; run() then passes the exception on (lines 335-337)
\* and reaches its finally clause.
ServerStartExcept ==
    /\ rPc = "start_except"
    /\ StopEntered("finally")
    /\ rRaise' = TRUE
    /\ UNCHANGED <<rConfig, rShutdown, rApi, rMonitoring>>
    /\ UNCHANGED codecVars
    /\ UNCHANGED dispatchVars
    /\ UNCHANGED stdioVars
    /\ UNCHANGED httpVars
    /\ UNCHANGED monitorVars

\* A wait that leaves only on the shutdown event, whatever the transport does.
ServerWait_ShutdownEventOnly ==
    /\ rPc = "wait"
    /\ rShutdown
    /\ rPc' = "finally"
    /\ UNCHANGED <<rConfig, rRunning, rShutdown, rApi, rMonitoring, rRaise>>
    /\ UNCHANGED codecVars
    /\ UNCHANGED dispatchVars
    /\ UNCHANGED stdioVars
    /\ UNCHANGED httpVars
    /\ UNCHANGED monitorVars

\* _wait_for_shutdown_stdio (lines 349-353) leaves its loop when the shutdown
\* event is set or the transport's running flag is clear, which it tests once a
\* second; _wait_for_shutdown_signal (line 365) waits for the shutdown event.
ServerWait ==
    /\ rPc = "wait"
    /\ \/ rShutdown
       \/ rConfig.transport = "stdio" /\ ~rRunning
       \/ rConfig.transport = "stdio" /\ ~sRunning
    /\ rPc' = "finally"
    /\ UNCHANGED <<rConfig, rRunning, rShutdown, rApi, rMonitoring, rRaise>>
    /\ UNCHANGED codecVars
    /\ UNCHANGED dispatchVars
    /\ UNCHANGED stdioVars
    /\ UNCHANGED httpVars
    /\ UNCHANGED monitorVars

\* _signal_handler: SIGINT or SIGTERM arrives.
Signal ==
    /\ rPc \notin {"none", "returned", "raised"}
    /\ ~rShutdown
    /\ rShutdown' = TRUE
    /\ UNCHANGED <<rConfig, rPc, rRunning, rApi, rMonitoring, rRaise>>
    /\ UNCHANGED codecVars
    /\ UNCHANGED dispatchVars
    /\ UNCHANGED stdioVars
    /\ UNCHANGED httpVars
    /\ UNCHANGED monitorVars

\* run(), lines 338-339: the finally clause calls self.stop(); when stop()
\* returns at once run() is left, with the exception if one is pending.
ServerFinally ==
    /\ rPc = "finally"
    /\ StopEntered(IF rRaise THEN "raised" ELSE "returned")
    /\ UNCHANGED <<rConfig, rShutdown, rApi, rMonitoring, rRaise>>
    /\ UNCHANGED codecVars
    /\ UNCHANGED dispatchVars
    /\ UNCHANGED stdioVars
    /\ UNCHANGED httpVars
    /\ UNCHANGED monitorVars

\* stop(), lines 292-297: self.transport.stop().
ServerStopTransport ==
    /\ rPc = "stop_transport"
    /\ ~TransportStopped
    /\ \/ /\ rConfig.transport = "stdio"
          /\ Stop
       \/ /\ rConfig.transport = "http"
          /\ HttpStop

\* stop(), lines 300-305, after the transport's stop() returned:
\* self.http_server.stop().
ServerStopApi ==
    /\ rPc = "stop_transport"
    /\ TransportStopped
    /\ rApi' = IF rApi = "running" THEN "stopped" ELSE rApi
    /\ rPc' = "stop_monitoring"
    /\ UNCHANGED <<rConfig, rRunning, rShutdown, rMonitoring, rRaise>>
    /\ UNCHANGED codecVars
    /\ UNCHANGED dispatchVars
    /\ UNCHANGED stdioVars
    /\ UNCHANGED httpVars
    /\ UNCHANGED monitorVars

\* stop(), lines 307-310: stop_system_monitoring(), and stop() returns to the
\* finally clause of run(), which is left.
ServerStopMonitoring ==
    /\ rPc = "stop_monitoring"
    /\ rMonitoring' = FALSE
    /\ rPc' = IF rRaise THEN "raised" ELSE "returned"
    /\ UNCHANGED <<rConfig, rRunning, rShutdown, rApi, rRaise>>
    /\ UNCHANGED codecVars
    /\ UNCHANGED dispatchVars
    /\ UNCHANGED stdioVars
    /\ UNCHANGED httpVars
    /\ UNCHANGED monitorVars

\* The steps of the main thread in run().
MainThread ==
    \/ ServerSetHandler
    \/ ServerInitialized
    \/ ServerStartApi
    \/ ServerStartTransport
    \/ ServerStartTransportFails
    \/ ServerStarted
    \/ ServerStartExcept
    \/ ServerWait
    \/ ServerFinally
    \/ ServerStopTransport
    \/ ServerStopApi
    \/ ServerStopMonitoring

\* The steps of an input thread that do not wait for input.
InputThread ==
    \/ \E w \in Workers : LoopTest(w)
    \/ \E w \in Workers : ParseLine(w)
    \/ \E w \in Workers : Dispatch(w)
    \/ \E w \in Workers : Send(w)
    \/ \E w \in Workers : SendExcept(w)
    \/ \E w \in Workers : Finally(w)

NextServer ==
    \/ MainThread
    \/ Signal
    \/ InputThread
    \/ \E w \in Workers : ReadLine(w)
    \/ \E w \in Workers : ReadEof(w)
    \/ ServeForeverReturns
    \/ HttpServerClose

SpecServer == ServerInit /\ [][NextServer]_vars

\* The main thread and the input thread are scheduled, and the thread of the
\* network transport returns from serve_forever once shutdown() is requested.
SpecServerFair ==
    /\ SpecServer
    /\ WF_vars(MainThread)
    /\ WF_vars(InputThread)
    /\ WF_vars(ServeForeverReturns \/ HttpServerClose)

\* ------------------------------------------------------------ the properties

\* C1: the response to a request handled by the dispatcher, and the error
\* response the transport base builds when no handler is registered or the
\* handler raises, carries the request's id unchanged, null included.
C1_ResponseIdEqualsRequestId ==
    dKind \in {"request", "no_handler", "raising_handler"} =>
        /\ dResp.id = dReq.id
        /\ dWire.id = dReq.id
        /\ dKind = "request" => (dOut.kind = "return" /\ dOut.resp.id = dReq.id)

\* An envelope that fails validation and has a non-null id has been answered.
C1_Witness ==
    /\ dKind = "request"
    /\ ~validate_request(dReq)
    /\ dReq.id = JInt("7")
    /\ dWire.id = JInt("7")

\* C2: every response emitted - by the dispatcher, by the transport base, and
\* by the transports' parse-error and exception paths - has, once serialised,
\* exactly one of the members result and error.
C2_ExactlyOneOfResultAndError ==
    dKind \in {"request", "no_handler", "raising_handler", "parse_error", "exception"} =>
        ("result" \in dWire.members) # ("error" \in dWire.members)

\* The dispatcher has answered a request with an error.
C2_Witness ==
    /\ dKind = "request"
    /\ ~dResp.error.none
    /\ "error" \in dWire.members
    /\ "result" \notin dWire.members

\* The indices of the lines that are not blank, in the order they were read.
NonBlankIndices(lines) ==
    SelectSeq([i \in 1..Len(lines) |-> i], LAMBDA i : lines[i].kind # "blank")

\* C3: on the stream channel the k-th response written answers the k-th
\* non-blank line read: no reordering, no duplication, no answer to a later line
\* before an earlier one, and none to a blank line.
C3_ResponsesInReadOrder ==
    \A k \in 1..Len(sOut) :
        /\ k <= Len(NonBlankIndices(sLines))
        /\ sOut[k].line = NonBlankIndices(sLines)[k]

\* The request of line i.
RequestOfLine(i) == from_json(sLines[i].obj)

\* C4: a handler exception for one request yields an error response for that
\* request, leaves the channel running with its worker going on to send, and
\* every request whose handler did not raise is answered with what the
\* dispatcher makes of that request alone.
C4_HandlerFailureIsolated ==
    /\ [](\A k \in 1..Len(sOut) :
            (~sOut[k].except /\ sLines[sOut[k].line].kind = "object") =>
                IF sOut[k].line \in sRaised
                THEN /\ "error" \in sOut[k].wire.members
                     /\ "result" \notin sOut[k].wire.members
                     /\ sOut[k].wire.id = RequestOfLine(sOut[k].line).id
                ELSE IF sOut[k].line \in sHandled
                THEN sOut[k].wire =
                         to_json(handle_request(RequestOfLine(sOut[k].line), tools,
                                                ReliableEnv).resp)
                ELSE sOut[k].wire.error.code = INTERNAL_ERROR)
    /\ [][sRaised' # sRaised =>
            /\ sRunning' = sRunning
            /\ sStopEvent' = sStopEvent
            /\ \A w \in Workers :
                   sWorker'[w] # sWorker[w] =>
                       /\ sWorker'[w].pc = "send"
                       /\ sWorker'[w].line = sWorker[w].line
                       /\ ~sWorker'[w].resp.error.none
                       /\ sWorker'[w].resp.id = RequestOfLine(sWorker[w].line).id]_vars

\* The handler raised for the first request and not for the second, and both
\* have been answered on a channel that is still running.
C4_Witness ==
    /\ Len(sOut) = 2
    /\ sRunning
    /\ sOut[1].line \in sRaised
    /\ "error" \in sOut[1].wire.members
    /\ sOut[2].line \in sHandled \ sRaised
    /\ "result" \in sOut[2].wire.members

\* C5: a request line that had been read and not yet answered when stop() was
\* called is not dropped: once no input worker holds it, its response has been
\* written.
C5_HeldRequestIsAnswered ==
    \A i \in sHeldAtStop :
        \/ \E w \in Workers : sWorker[w].line = i
        \/ \E k \in 1..Len(sOut) : sOut[k].line = i

\* C6: at most one input worker is reading the stream, and at most one request
\* is being dispatched.
C6_OneWorkerOneDispatch ==
    /\ Cardinality({w \in Workers : sWorker[w].pc = "read"}) <= 1
    /\ Cardinality({w \in Workers : sWorker[w].pc = "dispatch"}) <= 1

\* Client c sent a base64_encode call.
SentEncodeCall(c) == hClient[c].msg.verb = "POST" /\ hClient[c].msg.body.kind = "object"

\* The text client c asked to encode.
TextOf(c) == hClient[c].msg.body.obj.params.arguments.text.val

\* C7: with any number of clients posting at once, each client that is answered
\* receives the response to its own request - its own id, and the encoding of
\* its own text when the dispatcher handled it - and every request posted is
\* answered unless the transport is stopped.
C7_EachClientGetsItsOwnResponse ==
    /\ [](\A c \in Clients :
            (hClient[c].st = "answered" /\ SentEncodeCall(c)) =>
                /\ hClient[c].resp.status = 200
                /\ hClient[c].resp.wire.id = ClientId(c)
                /\ hClient[c].handler = "dispatcher" =>
                       /\ "result" \in hClient[c].resp.wire.members
                       /\ hClient[c].resp.wire.result.content = encode(TextOf(c)).val)
    /\ \A c \in Clients :
           (hClient[c].st = "posted") ~> (hClient[c].st = "answered" \/ ~hRunning)

\* Two clients that asked for different texts while the other's request was in
\* flight have both been answered by the dispatcher.
C7_Witness ==
    \E c, d \in Clients :
        /\ c # d
        /\ hClient[c].st = "answered" /\ hClient[d].st = "answered"
        /\ SentEncodeCall(c) /\ SentEncodeCall(d)
        /\ TextOf(c) # TextOf(d)
        /\ hClient[d].overlap
        /\ hClient[c].handler = "dispatcher" /\ hClient[d].handler = "dispatcher"
        /\ hClient[c].resp.wire.result.content # hClient[d].resp.wire.result.content

\* C8: while one client's request is being dispatched, the request another
\* client has posted can be accepted.
C8_RequestsOverlap ==
    \A c \in Clients :
        (hPc = "dispatch" /\ hServer = "serving" /\ hClient[c].st = "posted") =>
            ENABLED Accept(c)

\* C9: a base64_encode call on a text followed by a base64_decode call on the
\* returned content succeeds and yields the text, the empty text included.
C9_EncodeThenDecodeYieldsText ==
    /\ cStage \in {"encoded", "decoded"} => cEnc.error.none
    /\ cStage = "decoded" => (cDec.error.none /\ cDec.result.content = cText)

\* C10: an envelope whose version is not "2.0", or whose method is not a
\* non-empty string, or whose params is present and is not a mapping, is
\* answered with InvalidRequest carrying its id and is routed to no method
\* handler.
C10_InvalidEnvelopeRejected ==
    (/\ dKind = "request"
     /\ \/ dReq.jsonrpc # JStr("2.0")
        \/ ~(dReq.method.type = "str" /\ dReq.method.val # "")
        \/ (dReq.params.type # "absent" /\ dReq.params.type # "obj"))
    => /\ ~dResp.error.none
       /\ dResp.error.code = INVALID_REQUEST
       /\ dResp.id = dReq.id
       /\ dOut.routed = "none"

\* C11: every response to a line that is not JSON, or is JSON that is no
\* object, carries ParseError, and no such line is answered twice.
C11_UnparsableLineGetsParseError ==
    \A k \in 1..Len(sOut) :
        sLines[sOut[k].line].kind \in {"badjson", "nonobject"} =>
            /\ ~sOut[k].wire.error.none
            /\ sOut[k].wire.error.code = PARSE_ERROR
            /\ \A j \in 1..Len(sOut) : sOut[j].line = sOut[k].line => j = k

\* C12: when the codec fails with an unexpected exception during a tools/call,
\* the response is an error carrying InternalError.
C12_CodecFailureIsInternalError ==
    (dKind = "codec_failure" /\ dOut.codecCalls > 0) =>
        /\ ~dResp.error.none
        /\ dResp.error.code = INTERNAL_ERROR

\* C13: a valid envelope whose method is none of initialize, tools/list,
\* tools/call and ping is answered with MethodNotFound, and the error's data
\* carries the method name.
C13_UnknownMethodCarriesName ==
    (dKind = "request" /\ validate_request(dReq) /\ RouteOf(dReq) = "none") =>
        /\ ~dResp.error.none
        /\ dResp.error.code = METHOD_NOT_FOUND
        /\ dResp.error.dataKey = "method"
        /\ dResp.error.dataVal = dReq.method.val

\* A tools/call with a valid envelope whose params name the tool with a string
\* or a number.
IsNamedCall(request) ==
    /\ validate_request(request)
    /\ request.method.val = "tools/call"
    /\ request.params.type = "obj"
    /\ request.params.name.type \in {"str", "int"}

\* C14: a tools/call naming a tool absent from the registry is answered with
\* ToolNotFound, and no codec operation is invoked for it.
C14_UnknownToolNotFound ==
    (/\ dKind \in {"request", "codec_failure"}
     /\ IsNamedCall(dReq)
     /\ dReq.params.name \notin {JStr(tools[i]) : i \in 1..Len(tools)}) =>
        /\ ~dResp.error.none
        /\ dResp.error.code = TOOL_NOT_FOUND
        /\ dResp.error.arg = dReq.params.name.val
        /\ dResp.id = dReq.id
        /\ dOut.codecCalls = 0

C14_Witness ==
    /\ dKind = "request"
    /\ IsNamedCall(dReq)
    /\ dReq.params.name = JStr("no_such_tool")
    /\ dReq.params.arguments.type = "obj"
    /\ dReq.params.arguments.text.type = "str"
    /\ ~dResp.error.none
    /\ dResp.error.code = TOOL_NOT_FOUND
    /\ dOut.codecCalls = 0

\* The argument a registered tool requires, as the call carries it.
RequiredArgument(request) ==
    IF request.params.name.val = "base64_encode"
    THEN ArgumentsOf(request.params).text
    ELSE ArgumentsOf(request.params).base64_string

\* The messages of the two ValueErrors a tool raises about its argument.
ArgumentMessages(request) ==
    IF request.params.name.val = "base64_encode"
    THEN {"Missing required parameter: text", "Parameter 'text' must be a string"}
    ELSE {"Missing required parameter: base64_string",
          "Parameter 'base64_string' must be a string"}

\* C15: a call of base64_encode or base64_decode whose required argument is
\* missing or is no string is answered with InvalidParams, the message names
\* the parameter, and the codec is not invoked.
C15_BadArgumentNamesParameter ==
    (/\ dKind \in {"request", "codec_failure"}
     /\ IsNamedCall(dReq)
     /\ InRegistry(tools, dReq.params.name)
     /\ RequiredArgument(dReq).type # "str") =>
        /\ ~dResp.error.none
        /\ dResp.error.code = INVALID_PARAMS
        /\ dResp.error.message \in ArgumentMessages(dReq)
        /\ dOut.codecCalls = 0

\* C16: with no request handler registered, a request that arrives is answered
\* with InternalError carrying the request's id and the detail "No request
\* handler registered", and the step neither stops the transport nor ends its
\* worker.
C16_NoHandlerIsInternalError ==
    /\ [](\A k \in 1..Len(sOut) :
            (/\ ~sOut[k].except
             /\ sLines[sOut[k].line].kind = "object"
             /\ sOut[k].line \notin sHandled) =>
                /\ "error" \in sOut[k].wire.members
                /\ "result" \notin sOut[k].wire.members
                /\ sOut[k].wire.error.code = INTERNAL_ERROR
                /\ sOut[k].wire.error.dataVal = "No request handler registered"
                /\ sOut[k].wire.id = RequestOfLine(sOut[k].line).id)
    /\ [][\A w \in Workers :
            (/\ sWorker[w].pc = "dispatch"
             /\ sWorker'[w].pc # "dispatch"
             /\ ~sHandlerSet) =>
                /\ sRunning' = sRunning
                /\ sStopEvent' = sStopEvent
                /\ sWorker'[w].pc = "send"
                /\ sWorker'[w].line = sWorker[w].line
                /\ sWorker'[w].resp.error.code = INTERNAL_ERROR
                /\ sWorker'[w].resp.error.dataVal = "No request handler registered"
                /\ sWorker'[w].resp.id = RequestOfLine(sWorker[w].line).id]_vars

\* Two requests arrived with no handler registered; both have been answered
\* with the error, the second carrying its own id, and the transport is still
\* running.
C16_Witness ==
    /\ ~sHandlerSet
    /\ sRunning
    /\ Len(sOut) = 2
    /\ sHandled = {}
    /\ \A k \in 1..2 :
           /\ ~sOut[k].except
           /\ sLines[sOut[k].line].kind = "object"
           /\ sOut[k].wire.error.code = INTERNAL_ERROR
           /\ sOut[k].wire.error.dataVal = "No request handler registered"
    /\ sOut[2].wire.id # JNull

\* The transport was started once and stop() has not been called since.
StartedOnceNeverStopped == sStarted = 1 /\ ~sStopEvent

\* C17: on a transport that was started and not stopped, end-of-stream makes
\* the worker leave its loop for the finally clause, which ends the worker and
\* clears the running flag; once the worker has ended, every non-blank line
\* read before end-of-stream has been answered.
C17_EndOfStreamStopsTransport ==
    /\ []((StartedOnceNeverStopped /\ sEof /\ sWorker[1].pc = "done") =>
            /\ ~sRunning
            /\ \A i \in 1..Len(sLines) :
                   sLines[i].kind # "blank" =>
                       \E k \in 1..Len(sOut) : sOut[k].line = i)
    /\ [][StartedOnceNeverStopped =>
            /\ (sWorker[1].pc = "read" /\ sEof' /\ sWorker'[1] # sWorker[1]) =>
                   /\ sWorker'[1].pc = "finally"
                   /\ sRunning' = sRunning
            /\ (sWorker[1].pc = "finally" /\ sWorker'[1] # sWorker[1]) =>
                   /\ sWorker'[1].pc = "done"
                   /\ ~sRunning'
                   /\ sOut' = sOut]_vars

\* Two lines were read and answered, then the stream ended: the worker has
\* ended and the transport is not running, with stop() never called.
C17_Witness ==
    /\ StartedOnceNeverStopped
    /\ sEof
    /\ sWorker[1].pc = "done"
    /\ ~sRunning
    /\ Len(sLines) = 2
    /\ Len(sOut) = 2
    /\ sOut[1].line = 1
    /\ sOut[2].line = 2

\* C18: on both transports start() while running and stop() while not running
\* change nothing; an input thread or a listening server is created only by a
\* step that finds the transport not running, and a stop is signalled only by
\* a step that finds it running.
C18_StartStopIdempotent ==
    [][/\ (Start /\ sRunning) => UNCHANGED vars
       /\ (Stop /\ ~sRunning) => UNCHANGED vars
       /\ (HttpStart /\ hRunning) => UNCHANGED vars
       /\ (HttpStop /\ ~hRunning) => UNCHANGED vars
       /\ (\E w \in Workers : sWorker[w].pc = "none" /\ sWorker'[w].pc # "none") =>
              ~sRunning /\ sRunning'
       /\ (hServer # "serving" /\ hServer' = "serving") => ~hRunning /\ hRunning'
       /\ (~sStopEvent /\ sStopEvent') => sRunning /\ ~sRunning'
       /\ (hServer # "stopping" /\ hServer' = "stopping") => hRunning /\ ~hRunning']_vars

\* The stream transport is running with its one input thread, so that start()
\* finds it running; the HTTP transport has been started and stopped, so that
\* stop() finds it not running.
C18_Witness ==
    /\ sRunning
    /\ sStarted = 1
    /\ sWorker[1].pc = "read"
    /\ sWorker[2].pc = "none"
    /\ ENABLED Start
    /\ ~hRunning
    /\ hServer = "closed"
    /\ ENABLED HttpStop

\* C19: on the network channel an answered request that is neither a POST to
\* /mcp nor the OPTIONS pre-flight has status 404 and an error body, and the
\* handler was not invoked for it.
C19_OtherRequestsGet404 ==
    \A c \in Clients :
        (/\ hClient[c].st = "answered"
         /\ hClient[c].msg.verb # "OPTIONS"
         /\ ~(hClient[c].msg.verb = "POST" /\ hClient[c].msg.path = "/mcp")) =>
            /\ hClient[c].resp.status = 404
            /\ "error" \in hClient[c].resp.wire.members
            /\ hClient[c].handler = ""

\* C20: when the registered handler raised while a POST to /mcp was processed,
\* the response has status 500 and its body is an error envelope.
C20_HandlerExceptionGets500 ==
    \A c \in Clients :
        (/\ hClient[c].st = "answered"
         /\ hClient[c].msg.verb = "POST"
         /\ hClient[c].msg.path = "/mcp"
         /\ hClient[c].handler = "raising") =>
            /\ hClient[c].resp.status = 500
            /\ "error" \in hClient[c].resp.wire.members
            /\ "result" \notin hClient[c].resp.wire.members

\* C21: a POST to /mcp whose body is not well-formed JSON is answered with
\* status 400 and an envelope whose error code is ParseError, and the handler
\* is not invoked for it.
C21_MalformedBodyGets400 ==
    \A c \in Clients :
        (/\ hClient[c].st = "answered"
         /\ hClient[c].msg.verb = "POST"
         /\ hClient[c].msg.path = "/mcp"
         /\ hClient[c].msg.body.kind \in {"badjson", "badutf8"}) =>
            /\ hClient[c].resp.status = 400
            /\ "error" \in hClient[c].resp.wire.members
            /\ hClient[c].resp.wire.error.code = PARSE_ERROR
            /\ hClient[c].handler = ""

\* C22: a failure of the logging or of the metrics collaborator while a request
\* is recorded does not change the response: handle_request returns what it
\* returns when the recording succeeds.
C22_RecordingFailureKeepsResponse ==
    dKind \in {"log_failure", "metric_failure"} =>
        /\ dOut.kind = "return"
        /\ dOut.resp = handle_request(dReq, tools, ReliableEnv).resp

\* C23: the dispatcher lets no failure escape: whatever the envelope and
\* whichever collaborator fails, handle_request returns a response with the
\* request's id and exactly one of result and error.
C23_DispatcherNeverRaises ==
    dKind \in {"request", "codec_failure", "log_failure", "metric_failure"} =>
        /\ dOut.kind = "return"
        /\ dOut.resp.id = dReq.id
        /\ ("result" \in to_json(dOut.resp).members) #
               ("error" \in to_json(dOut.resp).members)

C25_RegistryUnchanged ==
    /\ tools = <<"base64_encode", "base64_decode">>
    /\ \A i \in 1..Len(dLog) :
           dLog[i].req.method = JStr("tools/list") =>
               /\ dLog[i].resp.error.none
               /\ dLog[i].resp.result.tools = <<"base64_encode", "base64_decode">>

\* A call of an unknown tool and a call of base64_encode without its argument
\* both failed, and the tools/list after them returned the two tools.
C25_Witness ==
    /\ Len(dLog) = 3
    /\ dLog[1].req.method = JStr("tools/call")
    /\ dLog[1].req.params.name = JStr("no_such_tool")
    /\ ~dLog[1].resp.error.none
    /\ dLog[2].req.method = JStr("tools/call")
    /\ dLog[2].req.params.name = JStr("base64_encode")
    /\ ~dLog[2].resp.error.none
    /\ dLog[3].req.method = JStr("tools/list")
    /\ dLog[3].resp.result.tools = <<"base64_encode", "base64_decode">>

\* C26: in every execution of run() the request handler is registered on the
\* transport before the transport is started, so a started transport has its
\* handler and no request is answered with "No request handler registered".
C26_HandlerRegisteredBeforeStart ==
    /\ [](/\ sStarted > 0 => sHandlerSet
          /\ hServer # "none" => hHandlerSet
          /\ \A k \in 1..Len(sOut) :
                 sOut[k].wire.error.dataVal # "No request handler registered"
          /\ \A c \in Clients :
                 hClient[c].st = "answered" =>
                     /\ hClient[c].handler # "none"
                     /\ hClient[c].resp.wire.error.dataVal #
                            "No request handler registered")
    /\ [][/\ (~sRunning /\ sRunning') => sHandlerSet
          /\ (~hRunning /\ hRunning') => hHandlerSet]_vars

\* A run with the stream transport answered two requests through the handler.
C26_Witness ==
    /\ sHandlerSet
    /\ sStarted = 1
    /\ Len(sOut) = 2
    /\ sHandled = {1, 2}
    /\ \A k \in 1..2 : ~sOut[k].except /\ sLines[sOut[k].line].kind = "object"

\* A string the specification requires rejected: empty, of a length that is no
\* multiple of 4, with a character outside [A-Za-z0-9+/=], or with a '='
\* before the final two positions.
MustBeRejected(s) ==
    \/ Len(s) = 0
    \/ Len(s) % 4 # 0
    \/ \E i \in 1..Len(s) : s[i] \notin (0..63) \cup {PadChar}
    \/ \E i \in 1..Len(s) : s[i] = PadChar /\ i < Len(s) - 1

\* C27: both validators reject every such string, validate_base64 with a
\* verdict of invalid and validate_base64_format with an InvalidBase64 error.
C27_MalformedBase64Rejected ==
    (vStage = "validated" /\ MustBeRejected(vString)) =>
        /\ ~vService.ok
        /\ ~vFormat.none
        /\ vFormat.code = INVALID_BASE64

\* C28: every HTTP response the network transport sends carries the
\* cross-origin headers, and the answer to OPTIONS has status 200 and an empty
\* body.
C28_EveryResponseHasCorsHeaders ==
    \A c \in Clients :
        hClient[c].st = "answered" =>
            /\ hClient[c].resp.cors
            /\ hClient[c].msg.verb = "OPTIONS" =>
                   /\ hClient[c].resp.status = 200
                   /\ hClient[c].resp.wire = NoWire

C30_RunningFollowsStartStop ==
    [][~sEof' =>
          /\ (sRunning /\ ~sRunning') =>
                 /\ sStopEvent'
                 /\ \A w \in Workers : sWorker'[w] = sWorker[w]
          /\ (~sRunning /\ sRunning') => ~sStopEvent']_vars


\* C31: once stop() has been called the stream transport accepts no more input:
\* a line whose read completed while the stop event was set is never handed to
\* the request handler.
C31_NoInputAfterStop ==
    sLateRead \cap sHandled = {}


\* C32: a request whose id is absent or null is a notification, and nothing is
\* written to stdout for it: no line of the output answers an input line that
\* is a JSON object without an id or with the id null.
C32_NotificationGetsNoResponse ==
    \A k \in 1..Len(sOut) :
        (sOut[k].line # 0 /\ sLines[sOut[k].line].kind = "object")
            => sLines[sOut[k].line].obj.id.type \notin {"absent", "null"}


\* C33: every request the dispatcher handles, with the logger and the metrics
\* recorder working, leaves exactly one request log entry and exactly one
\* metric event, whether it succeeded, was answered with an error, failed
\* validation or met an exception the dispatcher caught.
C33_OneLogEntryOneMetricEvent ==
    dKind \in {"request", "codec_failure"}
        => dOut.logs = 1 /\ dOut.metrics = 1


\* C34: a request whose JSON object has no jsonrpc member is answered with the
\* InvalidRequest error: every output line that carries the dispatcher's answer
\* to such an input line has an error member with code -32600.
C34_MissingJsonrpcIsInvalidRequest ==
    \A k \in 1..Len(sOut) :
        (/\ sOut[k].line \in sHandled \ sRaised
         /\ ~sOut[k].except
         /\ sLines[sOut[k].line].obj.jsonrpc.type = "absent")
            => /\ "error" \in sOut[k].wire.members
               /\ sOut[k].wire.error.code = INVALID_REQUEST


\* C35: every error object delivered to a caller carries a negative code of the
\* taxonomy: whenever the body a network client received has an error member,
\* its code is one of MCPErrorCodes.
C35_ErrorCodesBelongToTaxonomy ==
    \A c \in Clients :
        (hClient[c].st = "answered" /\ "error" \in hClient[c].resp.wire.members)
            => /\ hClient[c].resp.wire.error.code < 0
               /\ hClient[c].resp.wire.error.code \in MCPErrorCodes


\* C36: no update of the shared performance monitor is lost: once every
\* record_request call has returned, each operation's total_requests equals the
\* number of calls made for it and equals successful_requests +
\* failed_requests.
C36_NoRecordedRequestLost ==
    (\A t \in MonitorThreads : mThread[t].pc = "idle") =>
        \A o \in Operations :
            /\ mMetrics[o].total_requests = mCalls[o]
            /\ mMetrics[o].total_requests =
                   mMetrics[o].successful_requests + mMetrics[o].failed_requests


\* A tools/call of base64_decode in a valid envelope whose base64_string is a
\* string.
IsDecodeCall(request) ==
    /\ request.jsonrpc = JStr("2.0")
    /\ request.method = JStr("tools/call")
    /\ request.params.type = "obj"
    /\ request.params.name = JStr("base64_decode")
    /\ request.params.arguments.type = "obj"
    /\ request.params.arguments.base64_string.type = "str"

\* The strings the decoder cannot turn into text: empty, of a length that is no
\* multiple of 4, with a character outside the alphabet, with padding anywhere
\* but at the end, or well-formed and beginning with 'g', whose first byte
\* (0x80..0x83) cannot begin a UTF-8 sequence.
Undecodable(s) ==
    \/ MustBeRejected(s)
    \/ \E i \in 1..(Len(s) - 1) : s[i] = PadChar /\ s[i + 1] # PadChar
    \/ Len(s) > 0 /\ s[1] = 32

C38_FailedStartStopsStartedComponents ==
    rPc = "raised" => (rApi # "running" /\ ~rMonitoring)


\* C39: in stdio mode, once stdin has reached end-of-stream the server shuts
\* down on its own: run() leaves its wait loop, stop() is executed and run()
\* returns, whether or not a signal arrives.
C39_EndOfStreamShutsServerDown ==
    (rConfig.transport = "stdio" /\ sEof)
        ~> (/\ rPc = "returned"
            /\ ~rRunning
            /\ ~sRunning
            /\ rApi # "running"
            /\ ~rMonitoring)

\* run() has returned in stdio mode after end-of-stream, with the HTTP API
\* server stopped and no signal received.
C39_Witness ==
    /\ rConfig = Config("stdio", TRUE)
    /\ sEof
    /\ ~rShutdown
    /\ rPc = "returned"
    /\ rApi = "stopped"
    /\ ~rMonitoring
    /\ ~sRunning

=============================================================================
